---------------------------- MODULE Spec2Model ----------------------------
(***************************************************************************)
(* A model of the qscan security dashboard: the delimited-text parser      *)
(* (assets/js/csv-parser.js), the filter engine, the time-range handler    *)
(* and the start-up sequence (assets/js/app.js), the metrics engine        *)
(* (assets/js/metrics.js), the time-range control                          *)
(* (assets/js/time-range-filter.js) and the data functions of the charts   *)
(* (assets/js/charts).                                                     *)
(*                                                                         *)
(* Text is a sequence of one-character strings, so that the parser's       *)
(* character loop, String.prototype.trim and the quoting rules are         *)
(* computed character by character.  Field values of the dashboard         *)
(* records are strings; a record is a function from column name to value.  *)
(***************************************************************************)
EXTENDS Integers, Sequences, FiniteSets, TLC

VARIABLES
    pc,                \* position of the modelled run
    csvInput,          \* how the text given to parseCSV was produced
    text,              \* the argument of parseCSV
    lines,             \* parseCSV's local `lines` when it reaches line 70
    data,              \* the value parseCSV returned
    rawData,           \* app.js: let rawData
    originalRawData,   \* app.js: window.originalRawData
    filterManager,     \* app.js: the FilterManager instance
    metricsCalculator, \* app.js: the MetricsCalculator instance
    renderedMetrics,   \* the values shown by the four metric cards
    renderedDeltas,    \* the deltas shown by the four metric cards
    now,               \* the month of the host's clock (new Date())
    renderLog,         \* what the last handler redrew, in the order drawn
    options,           \* the option lists of the three filter selects
    fnInput,           \* the arguments of a data function that is called
    fnResult,          \* the value the data function returned
    timeRangeFilter,   \* app.js: the TimeRangeFilter instance
    deliveredRange,    \* the range the last onRangeChange call was given
    document,          \* the ids of the chart surfaces the page has
    objects,           \* the variables of app.js that hold an object
    drawn,             \* the surfaces that were drawn on
    console,           \* the errors written to the console
    mainContent,       \* what the .main-content element shows
    theChart,          \* a chart instance: its data and its hover fields
    canvas,            \* what the instance's last render() did
    pointer,           \* where the pointer was at the last pointer event
    shownRows,         \* the rows each group of charts was last drawn from
    themeManager,      \* app.js: the ThemeManager instance
    dataTheme,         \* the data-theme attribute of the document element
    frameRequests,     \* the requestAnimationFrame callbacks not yet run
    clock,             \* performance.now(), in milliseconds
    painted,           \* the theme each chart's last draw took its colors from
    lineChart,         \* charts.lineChart: its labels and datasets
    lineSurface,       \* what the last draw left on the line chart's canvas
    dataTable,         \* app.js: the DataTable instance
    tableButtons,      \* the row indexes of the expand buttons on the page
    tableCall,         \* the method of the table called last, its argument
    timeout,           \* debounce: the timer id the closure holds
    timers,            \* the timers of the host that are set and not yet run
    hostTime,          \* the time of the host, in milliseconds
    wrapperCalls,      \* the calls of the debounced function so far
    funcCalls          \* the calls of the wrapped function so far

vars == <<pc, csvInput, text, lines, data, rawData, originalRawData,
          filterManager, metricsCalculator, renderedMetrics, renderedDeltas,
          now, renderLog, options, fnInput, fnResult, timeRangeFilter,
          deliveredRange, document, objects, drawn, console, mainContent,
          theChart, canvas, pointer, shownRows, themeManager, dataTheme,
          frameRequests, clock, painted, lineChart, lineSurface,
          dataTable, tableButtons, tableCall, timeout, timers, hostTime,
          wrapperCalls, funcCalls>>

csvVars == <<csvInput, text, lines, data>>
appVars == <<rawData, originalRawData, filterManager, metricsCalculator,
             renderedMetrics, renderedDeltas, now, renderLog, options,
             shownRows>>
fnVars == <<fnInput, fnResult>>
rangeVars == <<timeRangeFilter, deliveredRange>>
initVars == <<document, objects, drawn, console, mainContent>>
chartVars == <<theChart, canvas, pointer>>
frameVars == <<themeManager, dataTheme, frameRequests, clock, painted,
               lineChart, lineSurface>>
tableVars == <<dataTable, tableButtons, tableCall>>
debounceVars == <<timeout, timers, hostTime, wrapperCalls, funcCalls>>
pageVars == <<frameVars, tableVars, debounceVars>>

\* JavaScript's null and undefined, where a string may stand.
NULL == "<null>"
undefined == "<undefined>"

Range(s) == {s[k] : k \in DOMAIN s}

\* The parts of the page a run does not use.
framesIdle ==
    /\ themeManager = NULL
    /\ dataTheme = NULL
    /\ frameRequests = <<>>
    /\ clock = 0
    /\ painted = NULL
    /\ lineChart = NULL
    /\ lineSurface = NULL

tableIdle ==
    /\ dataTable = NULL
    /\ tableButtons = {}
    /\ tableCall = NULL

debounceIdle ==
    /\ timeout = NULL
    /\ timers = {}
    /\ hostTime = 0
    /\ wrapperCalls = <<>>
    /\ funcCalls = <<>>

pageIdle == framesIdle /\ tableIdle /\ debounceIdle

(***************************************************************************)
(* Bounds of the model.                                                    *)
(***************************************************************************)
MaxRows == 2       \* record rows of a serialized table
MaxFieldLen == 3   \* characters of the quoted field
MaxLen == 5        \* characters of an arbitrary text

(***************************************************************************)
(* csv-parser.js: parseCSV                                                 *)
(***************************************************************************)
QUOTE == "\""
COMMA == ","
LF == "\n"
CR == "\r"
SPACE == " "

\* The characters String.prototype.trim removes, among those of the model.
isWhiteSpace(c) == c \in {SPACE, LF, CR}

RECURSIVE trimStart(_)
trimStart(s) ==
    IF s # <<>> /\ isWhiteSpace(Head(s)) THEN trimStart(Tail(s)) ELSE s

RECURSIVE trimEnd(_)
trimEnd(s) ==
    IF s # <<>> /\ isWhiteSpace(s[Len(s)])
    THEN trimEnd(SubSeq(s, 1, Len(s) - 1))
    ELSE s

\* currentField.trim()
trim(s) == trimEnd(trimStart(s))

\* currentLine.some(field => field.length > 0)
someFieldNonEmpty(line) == \E k \in 1..Len(line) : Len(line[k]) > 0

\* The parser's locals before the loop (lines 21-24).
initialParser ==
    [lines |-> <<>>, currentLine |-> <<>>, currentField |-> <<>>,
     inQuotes |-> FALSE]

\* Lines 41-42: a comma outside quotes ends the field.
pushField_keepField(st) ==
    [st EXCEPT !.currentLine = Append(@, trim(st.currentField))]

pushField(st) ==
    [st EXCEPT !.currentLine = Append(@, trim(st.currentField)),
               !.currentField = <<>>]

\* Lines 45-52 and 63-68: push the last field and emit the line unless all
\* of its fields are empty.
emitLine(st) ==
    IF st.currentField # <<>> \/ Len(st.currentLine) > 0
    THEN LET line == Append(st.currentLine, trim(st.currentField))
         IN  [st EXCEPT !.lines = IF someFieldNonEmpty(line)
                                  THEN Append(@, line) ELSE @,
                        !.currentLine = <<>>,
                        !.currentField = <<>>]
    ELSE st

\* One iteration of the loop of lines 26-60 at (1-based) position i: the
\* locals after it and the position of the next iteration.
stepChar_splitInQuotes(t, i, st) ==
    LET char == t[i]
        nextChar == IF i + 1 <= Len(t) THEN t[i + 1] ELSE undefined
    IN  IF char = QUOTE
        THEN IF st.inQuotes /\ nextChar = QUOTE
             THEN [st |-> [st EXCEPT !.currentField = Append(@, QUOTE)],
                   i |-> i + 2]
             ELSE [st |-> [st EXCEPT !.inQuotes = ~@], i |-> i + 1]
        ELSE IF char = COMMA
        THEN [st |-> pushField(st), i |-> i + 1]
        ELSE IF (char = LF \/ char = CR) /\ ~st.inQuotes
        THEN [st |-> emitLine(st),
              i |-> IF char = CR /\ nextChar = LF THEN i + 2 ELSE i + 1]
        ELSE [st |-> [st EXCEPT !.currentField = Append(@, char)],
              i |-> i + 1]

stepChar(t, i, st) ==
    LET char == t[i]
        nextChar == IF i + 1 <= Len(t) THEN t[i + 1] ELSE undefined
    IN  IF char = QUOTE
        THEN IF st.inQuotes /\ nextChar = QUOTE
             THEN [st |-> [st EXCEPT !.currentField = Append(@, QUOTE)],
                   i |-> i + 2]
             ELSE [st |-> [st EXCEPT !.inQuotes = ~@], i |-> i + 1]
        ELSE IF char = COMMA /\ ~st.inQuotes
        THEN [st |-> pushField(st), i |-> i + 1]
        ELSE IF (char = LF \/ char = CR) /\ ~st.inQuotes
        THEN [st |-> emitLine(st),
              i |-> IF char = CR /\ nextChar = LF THEN i + 2 ELSE i + 1]
        ELSE [st |-> [st EXCEPT !.currentField = Append(@, char)],
              i |-> i + 1]

RECURSIVE scan(_, _, _)
scan(t, i, st) ==
    IF i > Len(t) THEN st
    ELSE LET r == stepChar(t, i, st) IN scan(t, r.i, r.st)

\* The array `lines` at line 70.
splitLines(t) == emitLine(scan(t, 1, initialParser)).lines

\* Lines 83-86: headers.forEach((header, index) => obj[header] =
\* line[index] || ''), a later column of the same name overwriting an
\* earlier one.
RECURSIVE assignFields(_, _, _, _)
assignFields(headers, line, index, obj) ==
    IF index > Len(headers) THEN obj
    ELSE LET header == headers[index]
             value == IF index <= Len(line) THEN line[index] ELSE <<>>
         IN  assignFields(headers, line, index + 1,
                 [h \in DOMAIN obj \cup {header} |->
                     IF h = header THEN value ELSE obj[h]])

makeObject_skipMissing(headers, line) ==
    assignFields(SubSeq(headers, 1, Len(line)), line, 1, [h \in {} |-> <<>>])

makeObject(headers, line) ==
    assignFields(headers, line, 1, [h \in {} |-> <<>>])

\* Lines 70-90.
toObjects(ls) ==
    IF Len(ls) = 0 THEN <<>>
    ELSE LET headers == ls[1]
             rest == SelectSeq(Tail(ls), LAMBDA line : Len(line) # 0)
         IN  [k \in 1..Len(rest) |-> makeObject(headers, rest[k])]

parseCSV(t) == toObjects(splitLines(t))


(***************************************************************************)
(* The texts given to parseCSV.  A table is serialized as the spec's       *)
(* round-trip property says: fields joined by commas, rows by the line     *)
(* terminator, a field holding a delimiter or a quote wrapped in quotes    *)
(* with its quotes doubled.                                                *)
(***************************************************************************)
SeqsUpTo(S, n) == UNION {[1..k -> S] : k \in 0..n}

hasDelimiter(f) == \E k \in 1..Len(f) : f[k] \in {COMMA, QUOTE, LF, CR}

RECURSIVE doubleQuotes(_)
doubleQuotes(f) ==
    IF f = <<>> THEN <<>>
    ELSE (IF Head(f) = QUOTE THEN <<QUOTE, QUOTE>> ELSE <<Head(f)>>)
         \o doubleQuotes(Tail(f))

quoteField(f) == <<QUOTE>> \o doubleQuotes(f) \o <<QUOTE>>

serializeField(f) == IF hasDelimiter(f) THEN quoteField(f) ELSE f

RECURSIVE joinSeqs(_, _)
joinSeqs(ss, sep) ==
    IF ss = <<>> THEN <<>>
    ELSE IF Len(ss) = 1 THEN ss[1]
    ELSE ss[1] \o sep \o joinSeqs(Tail(ss), sep)

serializeRow(row) ==
    joinSeqs([k \in 1..Len(row) |-> serializeField(row[k])], <<COMMA>>)

serialize(rows, eol) ==
    joinSeqs([k \in 1..Len(rows) |-> serializeRow(rows[k])], eol)

Widths == {1, 2}
RaggedWidths == {1, 2, 3}
\* Header names and fields without delimiters: empty, plain, and with
\* leading white space.
PlainNames == {<<>>, <<"a">>, <<"b">>}
PlainFields == {<<>>, <<"a">>, <<SPACE, "b">>}
\* Header names and fields with delimiters inside.
MixedNames == {<<>>, <<"a">>, <<"a", COMMA, "b">>}
MixedFields == {<<>>, <<"a", COMMA, "b">>, <<"a", CR, LF, "b">>}
RaggedFields == {<<>>, <<"a">>}
FieldChars == {"a", COMMA, QUOTE, SPACE}
TextChars == {"a", COMMA, QUOTE, LF, CR, SPACE}

TableInputs(kind, N, F, eols) ==
    UNION {{[kind |-> kind, rows |-> <<h>> \o r, eol |-> e, field |-> <<>>,
             pad |-> <<>>, raw |-> <<>>] :
               h \in [1..w -> N], r \in SeqsUpTo([1..w -> F], MaxRows),
               e \in eols} : w \in Widths}

RaggedInputs ==
    {[kind |-> "ragged", rows |-> <<h>> \o r, eol |-> <<LF>>,
      field |-> <<>>, pad |-> <<>>, raw |-> <<>>] :
        h \in [1..2 -> {<<"a">>, <<"b">>}],
        r \in SeqsUpTo(UNION {[1..w -> RaggedFields] : w \in RaggedWidths},
                       MaxRows)}

FieldInputs ==
    {[kind |-> "field", rows |-> <<>>, eol |-> <<LF>>, field |-> f,
      pad |-> p, raw |-> <<>>] :
        f \in SeqsUpTo(FieldChars, MaxFieldLen), p \in {<<>>, <<SPACE>>}}

RawInputs ==
    {[kind |-> "raw", rows |-> <<>>, eol |-> <<LF>>, field |-> <<>>,
      pad |-> <<>>, raw |-> t] : t \in SeqsUpTo(TextChars, MaxLen)}

PlainInputs == TableInputs("plain", PlainNames, PlainFields, {<<LF>>})
MixedInputs ==
    TableInputs("mixed", MixedNames, MixedFields, {<<LF>>, <<CR, LF>>})

\* The one column of the texts that hold a single quoted field.
FieldHeader == <<"a">>

TextOf(inp) ==
    CASE inp.kind = "raw" -> inp.raw
      [] inp.kind = "field" ->
            FieldHeader \o <<LF>> \o inp.pad \o quoteField(inp.field)
            \o inp.pad
      [] OTHER -> serialize(inp.rows, inp.eol)

(***************************************************************************)
(* The parser's run: a text is given, parseCSV returns.                    *)
(***************************************************************************)
InitCSV ==
    /\ pc = "input"
    /\ \/ csvInput \in PlainInputs
       \/ csvInput \in MixedInputs
       \/ csvInput \in RaggedInputs
       \/ csvInput \in FieldInputs
       \/ csvInput \in RawInputs
    /\ text = TextOf(csvInput)
    /\ lines = <<>>
    /\ data = <<>>
    /\ rawData = <<>>
    /\ originalRawData = [defined |-> FALSE, value |-> <<>>]
    /\ filterManager = NULL
    /\ metricsCalculator = NULL
    /\ renderedMetrics = NULL
    /\ renderedDeltas = NULL
    /\ now = NULL
    /\ renderLog = <<>>
    /\ shownRows = NULL
    /\ pageIdle
    /\ options = NULL
    /\ fnInput = NULL
    /\ fnResult = NULL
    /\ timeRangeFilter = NULL
    /\ deliveredRange = NULL
    /\ document = {}
    /\ objects = {}
    /\ drawn = {}
    /\ console = {}
    /\ mainContent = <<>>
    /\ theChart = NULL
    /\ canvas = NULL
    /\ pointer = NULL

ParseCSV ==
    /\ pc = "input"
    /\ lines' = splitLines(text)
    /\ data' = parseCSV(text)
    /\ pc' = "parsed"
    /\ UNCHANGED <<csvInput, text>>
    /\ UNCHANGED appVars
    /\ UNCHANGED fnVars
    /\ UNCHANGED rangeVars
    /\ UNCHANGED initVars
    /\ UNCHANGED chartVars
    /\ UNCHANGED pageVars

NextCSV == ParseCSV

SpecCSV == InitCSV /\ [][NextCSV]_vars

(***************************************************************************)
(* Properties of parseCSV.                                                 *)
(***************************************************************************)
Parsed == pc = "parsed"

FieldsOf(rows) == UNION {Range(rows[i]) : i \in 1..Len(rows)}

\* The records returned are the rows after the header, in order, each
\* header name mapped to the field of its column.
ReconstructsRows(rows) ==
    LET H == rows[1]
        R == Tail(rows)
    IN  /\ Len(data) = Len(R)
        /\ \A i \in 1..Len(R) : \A j \in 1..Len(H) :
              /\ H[j] \in DOMAIN data[i]
              /\ data[i][H[j]] = R[i][j]

\* C1, as stated: for every header row and record rows whose fields hold
\* no comma, quote, carriage return or line feed, parsing the comma/newline
\* serialization returns one record per row, in order, each header name
\* mapped to exactly the row's field.
C1_RoundTripAnyFields ==
    (Parsed /\ csvInput.kind = "plain"
        /\ \A f \in FieldsOf(csvInput.rows) : ~hasDelimiter(f))
    => ReconstructsRows(csvInput.rows)

\* What the parser's trimming, blank-line dropping and name-keyed records
\* ask of a table for the round trip to be exact.
Trimmed(rows) == \A f \in FieldsOf(rows) : trim(f) = f
NoBlankRow(rows) == \A i \in 1..Len(rows) : someFieldNonEmpty(rows[i])
DistinctNames(H) == \A j, k \in 1..Len(H) : H[j] = H[k] => j = k

\* C1, amended: the round trip is exact for tables whose fields hold no
\* delimiter and no leading or trailing white space, whose rows (the header
\* included) each have a non-empty field, and whose header names differ.
C1_RoundTripTrimmedTables ==
    (Parsed /\ csvInput.kind = "plain"
        /\ \A f \in FieldsOf(csvInput.rows) : ~hasDelimiter(f)
        /\ Trimmed(csvInput.rows)
        /\ NoBlankRow(csvInput.rows)
        /\ DistinctNames(csvInput.rows[1]))
    => ReconstructsRows(csvInput.rows)

C1_Witness ==
    /\ Parsed /\ csvInput.kind = "plain"
    /\ Trimmed(csvInput.rows) /\ NoBlankRow(csvInput.rows)
    /\ DistinctNames(csvInput.rows[1])
    /\ Len(csvInput.rows) = 3 /\ Len(csvInput.rows[1]) = 2
    /\ csvInput.rows[2] # csvInput.rows[3]
    /\ <<>> \notin Range(csvInput.rows[1])
    /\ <<>> \in Range(csvInput.rows[2])
    /\ Len(data) = 2

\* C2, as stated: a field holding commas and quotes, wrapped in quotes with
\* its quotes doubled, is parsed back to the original string as one field.
C2_QuotedFieldRoundTrip ==
    (Parsed /\ csvInput.kind = "field" /\ csvInput.pad = <<>>
        /\ COMMA \in Range(csvInput.field)
        /\ QUOTE \in Range(csvInput.field))
    => /\ Len(data) = 1
       /\ DOMAIN data[1] = {FieldHeader}
       /\ data[1][FieldHeader] = csvInput.field

\* C3, as stated: only white space outside the quotes of a field is
\* trimmed; a quoted field, with white space around its quotes or not, is
\* parsed to the text between the quotes, its own leading and trailing
\* white space kept.
C3_TrimOutsideQuotesOnly ==
    (Parsed /\ csvInput.kind = "field" /\ trim(csvInput.field) # <<>>)
    => /\ Len(data) = 1
       /\ data[1][FieldHeader] = csvInput.field

\* The position of the last line terminator before position p (0: none).
lastTerminatorBefore(t, p) ==
    LET at == {k \in 1..(p - 1) : t[k] \in {LF, CR}}
    IN  IF at = {} THEN 0 ELSE CHOOSE k \in at : \A m \in at : m <= k

quotePositions(t) == {k \in 1..Len(t) : t[k] = QUOTE}

\* C4, as stated: on a text with an unterminated quote (here: its only
\* quote) parseCSV returns exactly the records complete before that quote,
\* which are those of the text up to the last line terminator before it;
\* the line holding the quote is not emitted.
C4_UnterminatedQuoteTruncates ==
    (Parsed /\ csvInput.kind = "raw" /\ Cardinality(quotePositions(text)) = 1)
    => LET q == CHOOSE k \in quotePositions(text) : TRUE
       IN  data = parseCSV(SubSeq(text, 1, lastTerminatorBefore(text, q)))

\* The column of header name h that the record's value comes from.
lastColumn(H, h) ==
    CHOOSE j \in 1..Len(H) : H[j] = h /\ \A k \in 1..Len(H) : H[k] = h => k <= j

\* C5: every record returned has exactly the names of the first emitted
\* line as keys, the same for all records; a row shorter than the header
\* has the empty string under each missing name, and fields beyond the
\* header's length are under no key.
C5_HeaderKeyedRecords ==
    (Parsed /\ lines # <<>>)
    => /\ Len(data) = Len(lines) - 1
       /\ \A i \in 1..Len(data) :
            /\ DOMAIN data[i] = Range(lines[1])
            /\ \A h \in Range(lines[1]) :
                 LET j == lastColumn(lines[1], h)
                 IN  data[i][h] = IF j <= Len(lines[i + 1])
                                  THEN lines[i + 1][j] ELSE <<>>

C5_Witness ==
    /\ Parsed /\ csvInput.kind = "ragged"
    /\ Len(lines) = 3
    /\ Len(lines[2]) < Len(lines[1])
    /\ Len(lines[3]) > Len(lines[1])
    /\ lines[1][1] # lines[1][2]
    /\ lines[3][3] # <<>>
    /\ data[1][lines[1][2]] = <<>>

\* The lines a table gives: each field trimmed, the rows whose fields are
\* all empty left out.
expectedLines(rows) ==
    SelectSeq([i \in 1..Len(rows) |->
                  [j \in 1..Len(rows[i]) |-> trim(rows[i][j])]],
              someFieldNonEmpty)

\* C6: a comma, line feed or carriage return inside quotes is part of the
\* field, and outside quotes an LF or a CR+LF pair ends exactly one record,
\* a line of empty fields being dropped: a table whose fields hold commas
\* and line breaks, serialized with either terminator, is split into its
\* own rows and fields.
C6_DelimitersOnlyOutsideQuotes ==
    (Parsed /\ csvInput.kind = "mixed")
    => /\ lines = expectedLines(csvInput.rows)
       /\ data = toObjects(expectedLines(csvInput.rows))

C6_Witness ==
    /\ Parsed /\ csvInput.kind = "mixed" /\ csvInput.eol = <<CR, LF>>
    /\ Len(csvInput.rows) = 3 /\ Len(csvInput.rows[1]) = 2
    /\ csvInput.rows[1] = <<(<<"a">>), <<"a", COMMA, "b">>>>
    /\ csvInput.rows[2] = <<(<<>>), <<>>>>
    /\ csvInput.rows[3] = <<(<<"a", CR, LF, "b">>), <<"a", COMMA, "b">>>>
    /\ Len(lines) = 2
    /\ Len(data) = 1

(***************************************************************************)
(* Dashboard records.  A record maps column names to strings; row[key] of  *)
(* a missing key is undefined.  Values that are numbers, dates, NaN, null  *)
(* or undefined in JavaScript carry their type.                            *)
(***************************************************************************)
MaxRecs == 3       \* records of the loaded data file

get(row, key) == IF key \in DOMAIN row THEN row[key] ELSE undefined

\* A string value in a condition: null, undefined and '' are falsy.
truthy(v) == v \notin {NULL, undefined, ""}

jsNull == [type |-> "null"]
jsUndefined == [type |-> "undefined"]
NaN == [type |-> "NaN"]
jsNumber(n) == [type |-> "number", value |-> n]
InvalidDate == [type |-> "InvalidDate"]
jsDay(y, m, d) == [type |-> "Date", fullYear |-> y, month |-> m, date |-> d]
jsDate(y, m) == jsDay(y, m, 1)

\* new Date(dateStr) of the host, for the date strings of the model (local
\* time taken as UTC); getMonth() counts from 0.
newDate(dateStr) ==
    CASE dateStr = "2024-01-10" -> jsDay(2024, 0, 10)
      [] dateStr = "2024-01-25" -> jsDay(2024, 0, 25)
      [] dateStr = "2024-02-15" -> jsDay(2024, 1, 15)
      [] dateStr = "2023-12-05" -> jsDay(2023, 11, 5)
      [] dateStr = "2024-12-20" -> jsDay(2024, 11, 20)
      [] dateStr = "2023-01-15" -> jsDay(2023, 0, 15)
      [] dateStr = "2023-02-15" -> jsDay(2023, 1, 15)
      [] dateStr = "2023-03-15" -> jsDay(2023, 2, 15)
      [] dateStr = "2023-04-15" -> jsDay(2023, 3, 15)
      [] dateStr = "2023-05-15" -> jsDay(2023, 4, 15)
      [] dateStr = "2023-06-15" -> jsDay(2023, 5, 15)
      [] dateStr = "2023-07-15" -> jsDay(2023, 6, 15)
      [] dateStr = "2023-08-15" -> jsDay(2023, 7, 15)
      [] dateStr = "2023-09-15" -> jsDay(2023, 8, 15)
      [] dateStr = "2023-10-15" -> jsDay(2023, 9, 15)
      [] dateStr = "2023-11-15" -> jsDay(2023, 10, 15)
      [] OTHER -> InvalidDate

\* isNaN(date.getTime())
isInvalid(date) == date.type = "InvalidDate"

\* date.getTime() of a valid date, counted in days of 31-day months: it
\* orders the dates of the model as the milliseconds do.
getTime(date) == (date.fullYear * 12 + date.month) * 31 + date.date

\* new Date(year, monthIndex) as the number of its month: monthIndex 12 is
\* January of the next year, and dates of this form compare as these do.
monthDate(year, monthIndex) == year * 12 + monthIndex

\* String.prototype.toLowerCase on the status values of the model.
toLowerCase(str) ==
    CASE str = "Active" -> "active"
      [] str = "Fixed" -> "fixed"
      [] OTHER -> str

\* parseInt on the severity values of the model.
parseInt(str) ==
    CASE str = "1" -> jsNumber(1)
      [] str = "2" -> jsNumber(2)
      [] str = "3" -> jsNumber(3)
      [] str = "4" -> jsNumber(4)
      [] str = "5" -> jsNumber(5)
      [] str = "0" -> jsNumber(0)
      [] str = "6" -> jsNumber(6)
      [] str = "12" -> jsNumber(12)
      [] OTHER -> NaN

(***************************************************************************)
(* csv-parser.js: normalizeData                                            *)
(***************************************************************************)
getSeverityText(severity) ==
    LET level == parseInt(severity)
    IN  IF level = jsNumber(5) THEN "Critical"
        ELSE IF level = jsNumber(4) THEN "High"
        ELSE IF level = jsNumber(3) \/ level = jsNumber(2) THEN "Medium"
        ELSE IF level = jsNumber(1) THEN "Low"
        ELSE "Unknown"

\* The status values of the model hold no surrounding white space and
\* neither 'progress' nor 'verif'.
normalizeStatus(status) ==
    IF ~truthy(status) THEN "Unknown"
    ELSE LET lower == toLowerCase(status)
         IN  IF lower = "active" THEN "Open"
             ELSE IF lower = "fixed" THEN "Fixed"
             ELSE status

\* csv-parser.js parseDate and metrics.js parseDate: a Date or null.
parseDate(dateStr) ==
    IF ~truthy(dateStr) THEN jsNull
    ELSE LET date == newDate(dateStr)
         IN  IF ~isInvalid(date) THEN date ELSE jsNull

\* parseDate(...)?.getFullYear() and parseDate(...)?.getMonth() + 1: of
\* null the first is undefined, and undefined + 1 is NaN.
normalizeRow(row) ==
    LET first == parseDate(get(row, "First Detected"))
    IN  ("severityText" :> getSeverityText(get(row, "Severity")))
        @@ ("statusNormalized" :> normalizeStatus(get(row, "Vuln Status")))
        @@ ("firstDetected" :> first)
        @@ ("lastDetected" :> parseDate(get(row, "Last Detected")))
        @@ ("year" :> IF first = jsNull THEN jsUndefined
                      ELSE jsNumber(first.fullYear))
        @@ ("month" :> IF first = jsNull THEN NaN
                       ELSE jsNumber(first.month + 1))
        @@ row

normalizeData(rows) == [k \in 1..Len(rows) |-> normalizeRow(rows[k])]

\* A call of normalizeData: the argument array as the call leaves it, and
\* the array returned.
callNormalizeData_inPlace(rows) ==
    [source |-> normalizeData(rows), returned |-> normalizeData(rows)]

callNormalizeData(rows) ==
    [source |-> rows, returned |-> normalizeData(rows)]

(***************************************************************************)
(* app.js: FilterManager.  An instance is the record of its fields.        *)
(***************************************************************************)
noFilters == [owner |-> NULL, application |-> NULL, status |-> NULL]

\* The callback of originalData.filter in applyFilters (lines 753-770).
passesFilters_firstOnly(row, filters) ==
    IF truthy(filters.owner)
    THEN get(row, "LT Owner") = filters.owner
    ELSE IF truthy(filters.application)
    THEN get(row, "Application") = filters.application
    ELSE ~(truthy(filters.status)
           /\ get(row, "Vuln Status") # filters.status)

passesFilters(row, filters) ==
    /\ ~(truthy(filters.owner) /\ get(row, "LT Owner") # filters.owner)
    /\ ~(truthy(filters.application)
         /\ get(row, "Application") # filters.application)
    /\ ~(truthy(filters.status) /\ get(row, "Vuln Status") # filters.status)

applyFilters_narrowsBase(fm) ==
    LET kept == SelectSeq(fm.originalData,
                          LAMBDA row : passesFilters(row, fm.filters))
    IN  [fm EXCEPT !.filteredData = kept, !.originalData = kept]

applyFilters(fm) ==
    [fm EXCEPT !.filteredData =
        SelectSeq(fm.originalData, LAMBDA row : passesFilters(row, fm.filters))]

newFilterManager(rows) ==
    [originalData |-> rows, filteredData |-> rows, filters |-> noFilters]

setData_keepSubset(fm, rows) == [fm EXCEPT !.originalData = rows]

setData_clearsFilters(fm, rows) ==
    applyFilters([fm EXCEPT !.originalData = rows, !.filters = noFilters])

setData(fm, rows) == applyFilters([fm EXCEPT !.originalData = rows])

setFilter(fm, filterName, value) ==
    applyFilters([fm EXCEPT !.filters[filterName] = value])

reset(fm) == applyFilters([fm EXCEPT !.filters = noFilters])

getData(fm) == fm.filteredData

\* FilterManager.getUniqueValues, as a set; the values of the model are
\* parser output, which holds no surrounding white space for trim to
\* remove.
getUniqueValues(fm, field) ==
    {get(fm.originalData[k], field) : k \in 1..Len(fm.originalData)}
    \ {NULL, undefined, ""}

(***************************************************************************)
(* metrics.js: MetricsCalculator                                           *)
(***************************************************************************)
getTotalVulnerabilities(rows) == Len(rows)

getActiveCount(rows) ==
    Len(SelectSeq(rows, LAMBDA row :
        /\ truthy(get(row, "Vuln Status"))
        /\ toLowerCase(get(row, "Vuln Status")) = "active"))

getFixedCount(rows) ==
    Len(SelectSeq(rows, LAMBDA row :
        /\ truthy(get(row, "Vuln Status"))
        /\ toLowerCase(get(row, "Vuln Status")) = "fixed"))

getCriticalCount_byLabel(rows) ==
    Len(SelectSeq(rows, LAMBDA row : get(row, "Severity") = "Critical"))

getCriticalCount(rows) ==
    Len(SelectSeq(rows, LAMBDA row : get(row, "Severity") = "5"))

\* Math.round of the quotient num / den, den > 0: the nearest integer, a
\* half rounded up.
mathRound(num, den) == (2 * num + den) \div (2 * den)

MetricNames == {"total", "active", "fixed", "critical"}

\* The rows of the calculator's data first detected in the given month.
rowsOfMonth(rows, year, month) ==
    SelectSeq(rows, LAMBDA row :
        LET date == parseDate(get(row, "First Detected"))
        IN  IF date = jsNull THEN FALSE
            ELSE date.month = month /\ date.fullYear = year)

getMetricValue(metric, rows) ==
    CASE metric = "total" -> getTotalVulnerabilities(rows)
      [] metric = "active" -> getActiveCount(rows)
      [] metric = "fixed" -> getFixedCount(rows)
      [] metric = "critical" -> getCriticalCount(rows)
      [] OTHER -> 0

\* getDelta(metric) of a calculator whose data is rows, the clock at today.
\* ((current - prev) / prev) * 100 is computed in floating point; for the
\* counts of the model its distance to the exact quotient is far below the
\* distance of any inexact quotient to a half.
getDelta_wholeYear(rows, metric, today) ==
    LET currentMonth == today.month
        currentYear == today.fullYear
        currentData == rowsOfMonth(rows, currentYear, currentMonth)
        prevMonth == IF currentMonth = 0 THEN 11 ELSE currentMonth - 1
        prevData == rowsOfMonth(rows, currentYear, prevMonth)
        currentValue == getMetricValue(metric, currentData)
        prevValue == getMetricValue(metric, prevData)
    IN  IF prevValue = 0
        THEN (IF currentValue > 0 THEN 100 ELSE 0)
        ELSE mathRound((currentValue - prevValue) * 100, prevValue)

getDelta(rows, metric, today) ==
    LET currentMonth == today.month
        currentYear == today.fullYear
        currentData == rowsOfMonth(rows, currentYear, currentMonth)
        prevMonth == IF currentMonth = 0 THEN 11 ELSE currentMonth - 1
        prevYear == IF currentMonth = 0 THEN currentYear - 1 ELSE currentYear
        prevData == rowsOfMonth(rows, prevYear, prevMonth)
        currentValue == getMetricValue(metric, currentData)
        prevValue == getMetricValue(metric, prevData)
    IN  IF prevValue = 0
        THEN (IF currentValue > 0 THEN 100 ELSE 0)
        ELSE mathRound((currentValue - prevValue) * 100, prevValue)

\* The deltas of getAllMetrics, as renderMetrics writes them to the cards.
metricDeltas(calc, today) ==
    [metric \in MetricNames |-> getDelta(calc.data, metric, today)]

\* The values of getAllMetrics, as renderMetrics writes them to the cards.
metricValues(calc) ==
    [total |-> getTotalVulnerabilities(calc.data),
     active |-> getActiveCount(calc.data),
     fixed |-> getFixedCount(calc.data),
     critical |-> getCriticalCount(calc.data)]

(***************************************************************************)
(* charts/pie-chart.js: ChartDataProcessor                                 *)
(***************************************************************************)
\* The number of rows of the processor's data that satisfy Test.
countRows(rows, Test(_)) == Cardinality({k \in 1..Len(rows) : Test(rows[k])})

severityIs(row, levels) ==
    \E n \in levels : parseInt(get(row, "Severity")) = jsNumber(n)

getSeverityDistribution_twoIsLow(rows) ==
    <<[label |-> "Critical", color |-> "destructive",
       value |-> countRows(rows, LAMBDA row : severityIs(row, {5}))],
      [label |-> "High", color |-> "warning",
       value |-> countRows(rows, LAMBDA row : severityIs(row, {4}))],
      [label |-> "Medium", color |-> "chart-5",
       value |-> countRows(rows, LAMBDA row : severityIs(row, {3}))],
      [label |-> "Low", color |-> "info",
       value |-> countRows(rows, LAMBDA row : severityIs(row, {2, 1}))]>>

getSeverityDistribution(rows) ==
    <<[label |-> "Critical", color |-> "destructive",
       value |-> countRows(rows, LAMBDA row : severityIs(row, {5}))],
      [label |-> "High", color |-> "warning",
       value |-> countRows(rows, LAMBDA row : severityIs(row, {4}))],
      [label |-> "Medium", color |-> "chart-5",
       value |-> countRows(rows, LAMBDA row : severityIs(row, {3, 2}))],
      [label |-> "Low", color |-> "info",
       value |-> countRows(rows, LAMBDA row : severityIs(row, {1}))]>>

\* The key of a month in monthlyData.  The code's key is the text of the
\* year, '-' and the month's number from 1 padded to two digits; the pair
\* stands for that text, different pairs for different texts.
monthKey(date) == <<date.fullYear, date.month + 1>>

indexOfKey(entries, key) ==
    LET at == {i \in 1..Len(entries) : entries[i].key = key}
    IN  IF at = {} THEN 0 ELSE CHOOSE i \in at : TRUE

\* The callback of this.data.forEach in getMonthlyTrends (lines 266-284);
\* entries are the properties of monthlyData in the order they were added.
addToMonth(entries, row) ==
    LET date == newDate(get(row, "First Detected"))
    IN  IF isInvalid(date) THEN entries
        ELSE LET key == monthKey(date)
                 fresh == [key |-> key, total |-> 0, active |-> 0,
                           fixed |-> 0, timestamp |-> getTime(date)]
                 known == IF indexOfKey(entries, key) = 0
                          THEN Append(entries, fresh) ELSE entries
                 i == indexOfKey(known, key)
                 status == IF truthy(get(row, "Vuln Status"))
                           THEN toLowerCase(get(row, "Vuln Status")) ELSE ""
             IN  [known EXCEPT
                    ![i].total = @ + 1,
                    ![i].active = IF status = "active" THEN @ + 1 ELSE @,
                    ![i].fixed = IF status = "fixed" THEN @ + 1 ELSE @]

RECURSIVE groupByMonth(_, _)
groupByMonth(entries, rows) ==
    IF rows = <<>> THEN entries
    ELSE groupByMonth(addToMonth(entries, Head(rows)), Tail(rows))

\* Array.prototype.sort by ascending timestamp; the sort is stable.
RECURSIVE insertByTimestamp(_, _)
insertByTimestamp(sorted, entry) ==
    IF sorted = <<>> THEN <<entry>>
    ELSE IF entry.timestamp < Head(sorted).timestamp
    THEN <<entry>> \o sorted
    ELSE <<Head(sorted)>> \o insertByTimestamp(Tail(sorted), entry)

RECURSIVE sortByTimestamp(_)
sortByTimestamp(entries) ==
    IF entries = <<>> THEN <<>>
    ELSE insertByTimestamp(sortByTimestamp(SubSeq(entries, 1,
                                                  Len(entries) - 1)),
                           entries[Len(entries)])

\* entries.slice(-months), months >= 1.
sliceLast_first(entries, months) ==
    SubSeq(entries, 1, IF months < Len(entries) THEN months ELSE Len(entries))

sliceLast(entries, months) ==
    SubSeq(entries, IF months < Len(entries) THEN Len(entries) - months + 1
                    ELSE 1,
           Len(entries))

getMonthlyTrends(rows, months) ==
    LET sorted == sliceLast(sortByTimestamp(groupByMonth(<<>>, rows)), months)
        series(name) == [i \in 1..Len(sorted) |-> sorted[i][name]]
    IN  [labels |-> series("key"),
         datasets |-> <<[label |-> "Total", data |-> series("total"),
                         color |-> "primary"],
                        [label |-> "Active", data |-> series("active"),
                         color |-> "destructive"],
                        [label |-> "Fixed", data |-> series("fixed"),
                         color |-> "success"]>>]

(***************************************************************************)
(* charts/sparkline-chart.js: AllOwnersRadialChart.processOwnershipData    *)
(***************************************************************************)
TopOwners == 5

indexOfOwner(entries, owner) ==
    LET at == {i \in 1..Len(entries) : entries[i].owner = owner}
    IN  IF at = {} THEN 0 ELSE CHOOSE i \in at : TRUE

\* The callback of this.rawData.forEach (lines 259-262); entries are the
\* properties of ownerCounts in the order they were added.
countOwner(entries, row) ==
    LET owner == IF truthy(get(row, "LT Owner")) THEN get(row, "LT Owner")
                 ELSE "Unknown"
        i == indexOfOwner(entries, owner)
    IN  IF i = 0 THEN Append(entries, [owner |-> owner, count |-> 1])
        ELSE [entries EXCEPT ![i].count = @ + 1]

\* ownerCounts after the rows lo..hi were added, in order, to entries.  The
\* rows are taken half by half, the first half (never without an owner
\* counted) evaluated before the second, to keep the evaluation shallow.
RECURSIVE countOwners(_, _, _, _)
countOwners(entries, rows, lo, hi) ==
    IF lo > hi THEN entries
    ELSE IF lo = hi THEN countOwner(entries, rows[lo])
    ELSE LET mid == (lo + hi) \div 2
             left == countOwners(entries, rows, lo, mid)
         IN  IF Len(left) > 0 THEN countOwners(left, rows, mid + 1, hi)
             ELSE <<>>

\* Array.prototype.sort by descending count; the sort is stable.
RECURSIVE insertByCount_ascending(_, _)
insertByCount_ascending(sorted, entry) ==
    IF sorted = <<>> THEN <<entry>>
    ELSE IF entry.count < Head(sorted).count
    THEN <<entry>> \o sorted
    ELSE <<Head(sorted)>> \o insertByCount_ascending(Tail(sorted), entry)

RECURSIVE insertByCount(_, _)
insertByCount(sorted, entry) ==
    IF sorted = <<>> THEN <<entry>>
    ELSE IF entry.count > Head(sorted).count
    THEN <<entry>> \o sorted
    ELSE <<Head(sorted)>> \o insertByCount(Tail(sorted), entry)

RECURSIVE sortByCount(_)
sortByCount(entries) ==
    IF entries = <<>> THEN <<>>
    ELSE insertByCount(sortByCount(SubSeq(entries, 1, Len(entries) - 1)),
                       entries[Len(entries)])

RECURSIVE sumCounts(_)
sumCounts(entries) ==
    IF entries = <<>> THEN 0 ELSE Head(entries).count + sumCounts(Tail(entries))

ChartColors == <<"chart-1", "chart-2", "chart-3", "chart-4", "chart-5", "muted">>

\* (count / total) * 100, kept as the exact fraction per / of; the code's
\* floating-point value is this fraction rounded.
percentOf(count, total) == [per |-> count * 100, of |-> total]

\* The category 'Others' also has labelVi, a fixed text, left out here.
processOwnershipData(rows) ==
    LET total == Len(rows)
        sortedOwners == sortByCount(countOwners(<<>>, rows, 1, Len(rows)))
        topOwners == SubSeq(sortedOwners, 1,
                            IF Len(sortedOwners) < TopOwners
                            THEN Len(sortedOwners) ELSE TopOwners)
        otherOwners == SubSeq(sortedOwners, TopOwners + 1, Len(sortedOwners))
        othersTotal == sumCounts(otherOwners)
        top == [i \in 1..Len(topOwners) |->
                  [label |-> topOwners[i].owner, value |-> topOwners[i].count,
                   percentage |-> percentOf(topOwners[i].count, total),
                   color |-> ChartColors[i], ringIndex |-> i - 1]]
    IN  [categories |->
            IF othersTotal > 0
            THEN Append(top, [label |-> "Others", value |-> othersTotal,
                              percentage |-> percentOf(othersTotal, total),
                              color |-> ChartColors[6], ringIndex |-> 5])
            ELSE top,
         total |-> total]

(***************************************************************************)
(* time-range-filter.js: the range a selection delivers.  A control left   *)
(* unselected gives null, written 0 here: the code only tests these fields *)
(* for truthiness, under which null and 0 agree, and no control offers a   *)
(* year or month 0.                                                        *)
(***************************************************************************)
isValidRange_yearsOnly(sel) ==
    IF sel.fromYear = 0 \/ sel.fromMonth = 0 \/ sel.toYear = 0
       \/ sel.toMonth = 0
    THEN TRUE
    ELSE sel.toYear >= sel.fromYear

isValidRange(sel) ==
    IF sel.fromYear = 0 \/ sel.fromMonth = 0 \/ sel.toYear = 0
       \/ sel.toMonth = 0
    THEN TRUE
    ELSE monthDate(sel.toYear, sel.toMonth - 1)
            >= monthDate(sel.fromYear, sel.fromMonth - 1)

getRange(sel) ==
    [fromYear |-> sel.fromYear, fromMonth |-> sel.fromMonth,
     toYear |-> sel.toYear, toMonth |-> sel.toMonth,
     isAll |-> (sel.fromYear = 0 \/ sel.toYear = 0)]

\* app.js getYearsFromData: the years the year selects offer.
getYearsFromData(rows) ==
    {newDate(get(rows[k], "First Detected")).fullYear :
        k \in {i \in 1..Len(rows) :
                 ~isInvalid(newDate(get(rows[i], "First Detected")))}}

\* The months of the model, among the twelve the month selects offer.
MonthChoices == {1, 12}

Selections(rows) ==
    [fromYear : getYearsFromData(rows) \cup {0}, fromMonth : MonthChoices \cup {0},
     toYear : getYearsFromData(rows) \cup {0}, toMonth : MonthChoices \cup {0}]

\* The ranges handleDateChange gives to the range-change callback.
DeliveredRanges(rows) ==
    {getRange(sel) : sel \in {x \in Selections(rows) : isValidRange(x)}}

(***************************************************************************)
(* app.js: handleTimeRangeChange, lines 476-498                            *)
(***************************************************************************)
inTimeRange(item, range) ==
    LET date == newDate(get(item, "First Detected"))
    IN  IF isInvalid(date) THEN FALSE
        ELSE LET year == date.fullYear
                 month == date.month + 1
             IN  /\ ~(range.fromYear # 0 /\ range.fromMonth # 0
                      /\ monthDate(year, month - 1)
                           < monthDate(range.fromYear, range.fromMonth - 1))
                 /\ ~(range.toYear # 0 /\ range.toMonth # 0
                      /\ monthDate(year, month)
                           > monthDate(range.toYear, range.toMonth))

filterByTime(original, range) ==
    IF ~range.isAll /\ range.fromYear # 0 /\ range.toYear # 0
    THEN SelectSeq(original, LAMBDA item : inTimeRange(item, range))
    ELSE original

(***************************************************************************)
(* The dashboard after init(), and its event handlers.                     *)
(***************************************************************************)
Row(severity, status, firstDetected, owner, application) ==
    ("Severity" :> severity) @@ ("Vuln Status" :> status)
    @@ ("First Detected" :> firstDetected) @@ ("LT Owner" :> owner)
    @@ ("Application" :> application)

\* The rows a data file may hold: the three of the spec's scenario and one
\* of the month before them, its status in lower case.
Universe ==
    {Row("5", "Active", "2024-01-10", "Alice", "Portal"),
     Row("3", "Fixed", "2024-02-15", "Bob", "Portal"),
     Row("1", "Active", "bad-date", "Alice", "Billing"),
     Row("5", "active", "2023-12-05", "Bob", "Billing")}

\* The data files of the model: rows in any order, a row repeated only in
\* a file of two rows.
DataFiles ==
    {rows \in SeqsUpTo(Universe, MaxRecs) :
        \/ Len(rows) <= 2
        \/ \A j, k \in 1..Len(rows) : rows[j] = rows[k] => j = k}

FilterKeys == {"owner", "application", "status"}

\* The month of the clock while the dashboard is open: new Date() in
\* getDelta gives February 2024, the month of the newest row.
Today == jsDate(2024, 1)

columnOf(filterKey) ==
    CASE filterKey = "owner" -> "LT Owner"
      [] filterKey = "application" -> "Application"
      [] filterKey = "status" -> "Vuln Status"

\* init(), lines 54-70: load, normalize, create the managers, populate the
\* selects, render the metrics.
InitApp ==
    /\ pc = "init"
    /\ rawData \in DataFiles
    /\ originalRawData = [defined |-> FALSE, value |-> <<>>]
    /\ filterManager = newFilterManager(normalizeData(rawData))
    /\ metricsCalculator = [data |-> normalizeData(rawData)]
    /\ renderedMetrics = metricValues(metricsCalculator)
    /\ now = Today
    /\ renderedDeltas = metricDeltas(metricsCalculator, now)
    /\ renderLog = <<"metrics", "table", "charts", "timeline",
                     "applicationStatus", "sparklines">>
    /\ shownRows = NULL
    /\ pageIdle
    /\ options = [key \in FilterKeys |->
                    getUniqueValues(filterManager, columnOf(key))]
    /\ csvInput = NULL
    /\ text = <<>>
    /\ lines = <<>>
    /\ data = <<>>
    /\ fnInput = NULL
    /\ fnResult = NULL
    /\ timeRangeFilter = NULL
    /\ deliveredRange = NULL
    /\ document = {}
    /\ objects = {}
    /\ drawn = {}
    /\ console = {}
    /\ mainContent = <<>>
    /\ theChart = NULL
    /\ canvas = NULL
    /\ pointer = NULL

\* updateSparklines(data) redraws the sparklines unless data is empty
\* (line 452).
sparklinesDrawn(rows) == IF rows = <<>> THEN <<>> ELSE <<"sparklines">>

\* updateDashboard(): the metrics, and what is redrawn after them.
UpdateDashboard(fm) ==
    LET filteredData == getData(fm)
    IN  /\ metricsCalculator' = [data |-> filteredData]
        /\ renderedMetrics' = metricValues([data |-> filteredData])
        /\ renderedDeltas' = metricDeltas([data |-> filteredData], now)
        /\ renderLog' = <<"metrics", "table", "charts">>
                          \o sparklinesDrawn(filteredData)

\* The change listener of a filter select (lines 172-176); the select
\* offers the populated options and the placeholder, whose '' becomes null.
filterChange(key, value) ==
    /\ pc \in {"init", "filter", "reset", "time"}
    /\ value \in options[key] \cup {NULL}
    /\ filterManager' = setFilter(filterManager, key, value)
    /\ UpdateDashboard(filterManager')
    /\ pc' = "filter"
    /\ UNCHANGED <<rawData, originalRawData, options, now>>
    /\ UNCHANGED csvVars
    /\ UNCHANGED fnVars
    /\ UNCHANGED rangeVars
    /\ UNCHANGED initVars
    /\ UNCHANGED chartVars
    /\ UNCHANGED pageVars

\* SpecApp does not follow the rows the charts are drawn from.
FilterChange(key, value) == filterChange(key, value) /\ UNCHANGED shownRows

\* The click listener of the reset button (lines 183-193).
resetClick ==
    /\ pc \in {"init", "filter", "reset", "time"}
    /\ filterManager' = reset(filterManager)
    /\ UpdateDashboard(filterManager')
    /\ pc' = "reset"
    /\ UNCHANGED <<rawData, originalRawData, options, now>>
    /\ UNCHANGED csvVars
    /\ UNCHANGED fnVars
    /\ UNCHANGED rangeVars
    /\ UNCHANGED initVars
    /\ UNCHANGED chartVars
    /\ UNCHANGED pageVars

ResetClick == resetClick /\ UNCHANGED shownRows

\* handleTimeRangeChange(timeRange), called by the range-change callback.
handleTimeRangeChange(range) ==
    LET original == IF originalRawData.defined
                    THEN originalRawData.value ELSE rawData
        filteredByTime == filterByTime(original, range)
        fm == setData(filterManager, filteredByTime)
        finalData == getData(fm)
    IN  /\ originalRawData' = [defined |-> TRUE, value |-> original]
        /\ filterManager' = fm
        /\ metricsCalculator' = [data |-> finalData]
        /\ renderedMetrics' = metricValues([data |-> finalData])
        /\ renderedDeltas' = metricDeltas([data |-> finalData], now)
        /\ renderLog' = <<"timeline", "applicationStatus">>
                          \o sparklinesDrawn(filteredByTime)
                          \o <<"metrics", "table", "charts">>

\* The range-change callback (lines 360-363), called with a range the
\* time-range control delivers.
rangeChange(range) ==
    /\ pc \in {"init", "filter", "reset", "time"}
    /\ handleTimeRangeChange(range)
    /\ pc' = "time"
    /\ UNCHANGED <<rawData, options, now>>
    /\ UNCHANGED csvVars
    /\ UNCHANGED fnVars
    /\ UNCHANGED rangeVars
    /\ UNCHANGED initVars
    /\ UNCHANGED chartVars
    /\ UNCHANGED pageVars

HandleTimeRangeChange(range) == rangeChange(range) /\ UNCHANGED shownRows

NextApp ==
    \/ \E key \in FilterKeys :
          \E value \in options[key] \cup {NULL} : FilterChange(key, value)
    \/ ResetClick
    \/ \E range \in DeliveredRanges(rawData) : HandleTimeRangeChange(range)

SpecApp == InitApp /\ [][NextApp]_vars

(***************************************************************************)
(* Properties of the filter engine, the time-range handler and the         *)
(* metrics engine.                                                         *)
(***************************************************************************)
\* A row satisfies every constraint that is not null, by equality.
matches(row, filters) ==
    \A key \in FilterKeys :
        filters[key] # NULL => get(row, columnOf(key)) = filters[key]

RECURSIVE keepMatching(_, _)
keepMatching(rows, filters) ==
    IF rows = <<>> THEN <<>>
    ELSE (IF matches(Head(rows), filters) THEN <<Head(rows)>> ELSE <<>>)
         \o keepMatching(Tail(rows), filters)

\* C7: after any sequence of filter changes, resets and base-set
\* replacements, getData() is the base set's records that satisfy every
\* non-null constraint, in base-set order; after reset() it is the whole
\* base set.
C7_FilteredIsMatchingBase ==
    /\ getData(filterManager)
         = keepMatching(filterManager.originalData, filterManager.filters)
    /\ pc = "reset" =>
         /\ filterManager.filters = noFilters
         /\ getData(filterManager) = filterManager.originalData

C7_Witness ==
    /\ pc = "time"
    /\ filterManager.filters.owner # NULL
    /\ filterManager.filters.status # NULL
    /\ filterManager.filters.application = NULL
    /\ Len(filterManager.originalData) = 2
    /\ Len(rawData) = 3
    /\ Len(getData(filterManager)) = 1

onlyFilter(fm, key, value) == getData(setFilter(reset(fm), key, value))

bothFilters(fm, k1, v1, k2, v2) ==
    getData(setFilter(setFilter(reset(fm), k1, v1), k2, v2))

\* C8: for any base set and any two constraints on different axes, the
\* subset with both set is the intersection of the subsets with each set
\* alone, whichever was set first; so is getData() in a state whose
\* constraints are these two.
C8_TwoFiltersIntersect ==
    \A k1, k2 \in FilterKeys : k1 # k2 =>
        \A v1 \in options[k1], v2 \in options[k2] :
            LET s1 == onlyFilter(filterManager, k1, v1)
                s2 == onlyFilter(filterManager, k2, v2)
                both == bothFilters(filterManager, k1, v1, k2, v2)
            IN  /\ both = bothFilters(filterManager, k2, v2, k1, v1)
                /\ both = SelectSeq(s1, LAMBDA row : row \in Range(s2))
                /\ both = SelectSeq(s2, LAMBDA row : row \in Range(s1))
                /\ filterManager.filters
                     = [[noFilters EXCEPT ![k1] = v1] EXCEPT ![k2] = v2]
                   => getData(filterManager) = both

C8_Witness ==
    /\ filterManager.filters.owner # NULL
    /\ filterManager.filters.application # NULL
    /\ filterManager.filters.status = NULL
    /\ Len(getData(filterManager)) = 1
    /\ Len(onlyFilter(filterManager, "owner", filterManager.filters.owner)) = 2
    /\ Len(onlyFilter(filterManager, "application",
                      filterManager.filters.application)) = 2

\* The (year, month) of a row's first-detected date lies between the two
\* ends of the range, both included; an end whose month is not selected is
\* taken as the first month of the from-year and the last of the to-year,
\* as the timeline chart takes it (timeline-chart.js, lines 58-59).
betweenEnds(item, range) ==
    LET date == newDate(get(item, "First Detected"))
        lowMonth == IF range.fromMonth = 0 THEN 1 ELSE range.fromMonth
        highMonth == IF range.toMonth = 0 THEN 12 ELSE range.toMonth
    IN  /\ ~isInvalid(date)
        /\ \/ date.fullYear > range.fromYear
           \/ date.fullYear = range.fromYear /\ date.month + 1 >= lowMonth
        /\ \/ date.fullYear < range.toYear
           \/ date.fullYear = range.toYear /\ date.month + 1 <= highMonth

recordsInRange(rows, range) ==
    IF range.isAll THEN rows
    ELSE SelectSeq(rows, LAMBDA item : betweenEnds(item, range))

\* C9, as stated: handleTimeRangeChange(range) makes the filter engine's
\* base set the loaded records whose first-detected month lies between the
\* range's ends, both included (all of them for the range "all"), computed
\* from the original load; the categorical constraints stay as they were
\* and are applied on top of it.
C9_BaseSetIsLoadWithinRange ==
    [][\A range \in DeliveredRanges(rawData) :
          HandleTimeRangeChange(range) =>
            /\ filterManager'.originalData = recordsInRange(rawData, range)
            /\ filterManager'.filters = filterManager.filters
            /\ getData(filterManager')
                 = keepMatching(filterManager'.originalData,
                                filterManager.filters)]_vars

isActiveText(status) == status \in {"active", "Active"}
isFixedText(status) == status \in {"fixed", "Fixed"}

\* The rows of the scenario, by the three columns it names.
ScenarioRows ==
    <<(<<"5", "Active", "2024-01-10">>), <<"3", "Fixed", "2024-02-15">>,
      <<"1", "Active", "bad-date">>>>

isScenario(rows) ==
    /\ Len(rows) = Len(ScenarioRows)
    /\ \A k \in 1..Len(rows) :
          <<get(rows[k], "Severity"), get(rows[k], "Vuln Status"),
            get(rows[k], "First Detected")>> = ScenarioRows[k]

\* C10: for the subset given to the metrics engine, total is the number of
\* records, active and fixed the numbers whose status is "active" and
\* "fixed" in any case, critical the number whose severity is 5, a record
\* with an unparsable date counted like any other; the scenario's rows
\* give total 3, critical 1, active 2, fixed 1.
C10_MetricValuesAreCounts ==
    LET rows == metricsCalculator.data
        count(P(_)) == Cardinality({k \in 1..Len(rows) : P(rows[k])})
        active(row) == isActiveText(get(row, "Vuln Status"))
        fixed(row) == isFixedText(get(row, "Vuln Status"))
        critical(row) == get(row, "Severity") = "5"
    IN  /\ renderedMetrics.total = Len(rows)
        /\ renderedMetrics.active = count(active)
        /\ renderedMetrics.fixed = count(fixed)
        /\ renderedMetrics.critical = count(critical)
        /\ isScenario(rows) =>
             renderedMetrics
               = [total |-> 3, critical |-> 1, active |-> 2, fixed |-> 1]

C10_Witness ==
    /\ pc = "filter"
    /\ isScenario(metricsCalculator.data)
    /\ renderedMetrics.total = 3

\* C11, as stated: in every dashboard state the delta shown for each
\* metric is the delta over the unfiltered loaded dataset, so no filter
\* change and no time-range change alters it.
C11_DeltaOverLoadedData ==
    \A metric \in MetricNames :
        renderedDeltas[metric] = getDelta(normalizeData(rawData), metric, now)

UpdateOrder == <<"metrics", "table", "charts", "sparklines">>

positionsOf(log, name) == {i \in 1..Len(log) : log[i] = name}

\* C17, as stated: every filter change and every time-range change redraws
\* in the order metrics, table, charts, sparklines; no sparkline and no
\* chart is redrawn before the metrics of the same update.
C17_MetricsTableChartsSparklines ==
    pc \in {"filter", "reset", "time"} =>
        /\ \A a, b \in 1..Len(UpdateOrder) : a < b =>
              \A i \in positionsOf(renderLog, UpdateOrder[a]),
                 j \in positionsOf(renderLog, UpdateOrder[b]) : i < j
        /\ \A name \in {"charts", "timeline", "applicationStatus",
                          "sparklines"} :
              \A i \in positionsOf(renderLog, "metrics"),
                 j \in positionsOf(renderLog, name) : i < j

(***************************************************************************)
(* The data functions, each called once on arguments drawn from a bounded  *)
(* set.                                                                    *)
(***************************************************************************)
MaxCount == 8      \* rows of one month in the data of getDelta

Repeat(row, n) == [k \in 1..n |-> row]

\* A date string of the model in month (year, month), month from 0.
dateIn(year, month) ==
    CASE year = 2023 /\ month = 11 -> "2023-12-05"
      [] year = 2024 /\ month = 0 -> "2024-01-10"
      [] year = 2024 /\ month = 1 -> "2024-02-15"
      [] year = 2024 /\ month = 11 -> "2024-12-20"

\* The month before (year, month).
monthBefore(year, month) ==
    IF month = 0 THEN [fullYear |-> year - 1, month |-> 11]
    ELSE [fullYear |-> year, month |-> month - 1]

\* The two kinds of row in the data of getDelta.
DeltaRowKinds == {<<"5", "Active">>, <<"3", "Fixed">>}

\* Does a row of the kind count for the metric?
countsFor(metric, rowKind) ==
    CASE metric = "total" -> TRUE
      [] metric = "active" -> rowKind[2] = "Active"
      [] metric = "fixed" -> rowKind[2] = "Fixed"
      [] metric = "critical" -> rowKind[1] = "5"

\* The data of a getDelta call: a row of another month or year and a row
\* without a date, then the rows of the current month and those of the
\* month before.
deltaRows(inp) ==
    LET before == monthBefore(inp.today.fullYear, inp.today.month)
        row(dateStr) ==
            Row(inp.rowKind[1], inp.rowKind[2], dateStr, "Alice", "Portal")
    IN  <<row(IF inp.today.month = 0 THEN "2024-12-20" ELSE "2023-12-05"),
          row("bad-date")>>
        \o Repeat(row(dateIn(inp.today.fullYear, inp.today.month)),
                  inp.current)
        \o Repeat(row(dateIn(before.fullYear, before.month)), inp.previous)

DeltaInputs ==
    [kind : {"delta"}, today : {jsDate(2024, 0), jsDate(2024, 1)},
     rowKind : DeltaRowKinds, metric : MetricNames,
     current : 0..MaxCount, previous : 0..MaxCount]

MaxSevRows == 3    \* rows in the data of getSeverityDistribution

\* Severity fields: the five levels, numbers out of range, no number.
SeverityValues == {"1", "2", "3", "4", "5", "0", "6", ""}

SeverityInputs ==
    [kind : {"severity"}, severities : SeqsUpTo(SeverityValues, MaxSevRows)]

severityRows(inp) ==
    [k \in 1..Len(inp.severities) |->
        Row(inp.severities[k], "Active", "2024-01-10", "Alice", "Portal")]

MaxNormRows == 2   \* records given to normalizeData

\* Records given to normalizeData: parsed rows, a row of empty fields, a
\* row without the three columns read, a row of the file that already has
\* a column called severityText, and rows already normalized.
ParsedRows ==
    Universe
    \cup {Row("", "", "", "", ""),
          ("LT Owner" :> "Alice"),
          ("severityText" :> "Low") @@ Row("5", "Fixed", "bad-date", "", "")}

NormalizeInputs ==
    [kind : {"normalize"},
     rows : SeqsUpTo(ParsedRows \cup {normalizeRow(r) : r \in ParsedRows},
                     MaxNormRows)]

MaxTrendRows == 3  \* rows of a short file given to getMonthlyTrends
DefaultMonths == 12

\* Rows of three months, two days of one month among them, with a status
\* in either case, without a status, and without a parsable date.
TrendRows ==
    {Row("3", st, d, "Alice", "Portal") :
        st \in {"Active", "fixed"},
        d \in {"2024-01-10", "2024-01-25", "2023-12-05", "bad-date"}}
    \cup {Row("3", "", "2024-02-15", "Alice", "Portal")}

\* The fourteen months from January 2023 to February 2024, oldest first.
MonthDates ==
    <<"2023-01-15", "2023-02-15", "2023-03-15", "2023-04-15", "2023-05-15",
      "2023-06-15", "2023-07-15", "2023-08-15", "2023-09-15", "2023-10-15",
      "2023-11-15", "2023-12-05", "2024-01-10", "2024-02-15">>

\* A file of one row for each of the n newest months and a second row for
\* January 2024, oldest or newest first.
longFile(n, newestFirst) ==
    LET first == Len(MonthDates) - n
        dateAt(k) == IF newestFirst THEN MonthDates[Len(MonthDates) + 1 - k]
                     ELSE MonthDates[first + k]
    IN  [k \in 1..n |-> Row("3", "Active", dateAt(k), "Alice", "Portal")]
        \o <<Row("3", "Fixed", "2024-01-25", "Alice", "Portal")>>

\* The three rows of the scenario.
ScenarioFile ==
    <<Row("5", "Active", "2024-01-10", "Alice", "Portal"),
      Row("3", "Fixed", "2024-02-15", "Bob", "Portal"),
      Row("1", "Active", "bad-date", "Alice", "Billing")>>

TrendInputs ==
    [kind : {"trends"}, months : {1, DefaultMonths},
     rows : SeqsUpTo(TrendRows, MaxTrendRows) \cup {ScenarioFile}]
    \cup [kind : {"trends"}, months : {DefaultMonths},
          rows : {longFile(n, newestFirst) :
                    n \in 11..14, newestFirst \in BOOLEAN}]

MaxOwnerRows == 2  \* rows of one owner in the data of the radial chart

\* Seven owners, the last a blank owner field.
OwnerNames == <<"Alice", "Bob", "Carol", "Dave", "Erin", "Frank", "">>

\* The eight owners and counts of the spec's example.
ExampleOwners ==
    <<"Alice", "Bob", "Carol", "Dave", "Erin", "Frank", "Grace", "Heidi">>
ExampleCounts == <<50, 20, 10, 8, 7, 3, 1, 1>>

RECURSIVE ownerRows(_, _)
ownerRows(names, counts) ==
    IF names = <<>> THEN <<>>
    ELSE Repeat(Row("3", "Active", "2024-01-10", Head(names), "Portal"),
                Head(counts))
         \o ownerRows(Tail(names), Tail(counts))

OwnershipInputs ==
    {[kind |-> "ownership", names |-> OwnerNames, counts |-> c] :
        c \in {x \in [1..Len(OwnerNames) -> 0..MaxOwnerRows] :
                 \E k \in 1..Len(OwnerNames) : x[k] > 0}}
    \cup {[kind |-> "ownership", names |-> ExampleOwners,
           counts |-> ExampleCounts]}

\* The days since year 0 of a date, months counted as 31 days, to compare
\* days.
dayNumber(date) == (date.fullYear * 12 + date.month) * 31 + date.date

RECURSIVE ascending(_)
ascending(S) ==
    IF S = {} THEN <<>>
    ELSE LET least == CHOOSE n \in S : \A m \in S : n <= m
         IN  <<least>> \o ascending(S \ {least})

DefaultPoints == 7

\* pie-chart.js ChartDataProcessor.getSparklineData(metric, points): the
\* rows with a valid first-detected date are counted by day, the days are
\* sorted by time, .slice(-points) keeps the last ones, and each gives its
\* count for the metric.
getSparklineData(rows, metric, points) ==
    LET dateOf(k) == newDate(get(rows[k], "First Detected"))
        dated == {k \in 1..Len(rows) : ~isInvalid(dateOf(k))}
        sorted == ascending({dayNumber(dateOf(k)) : k \in dated})
        first == IF Len(sorted) > points THEN Len(sorted) - points + 1 ELSE 1
        kept == SubSeq(sorted, first, Len(sorted))
        counted(row) ==
            CASE metric = "total" -> TRUE
              [] metric = "active" -> get(row, "Vuln Status") = "Active"
              [] metric = "fixed" -> get(row, "Vuln Status") = "Fixed"
              [] metric = "critical" -> get(row, "Severity") = "5"
    IN  [i \in 1..Len(kept) |->
            Cardinality({k \in dated : /\ dayNumber(dateOf(k)) = kept[i]
                                       /\ counted(rows[k])})]

\* Rows of the data files, and a window of two days or of the default.
SparklineInputs ==
    [kind : {"sparkline"}, rows : SeqsUpTo(Universe, MaxRecs),
     metric : {"total", "active", "fixed", "critical"},
     points : {2, DefaultPoints}]

InitFn ==
    /\ pc = "call"
    /\ \/ fnInput \in DeltaInputs
       \/ fnInput \in SeverityInputs
       \/ fnInput \in NormalizeInputs
       \/ fnInput \in TrendInputs
       \/ fnInput \in OwnershipInputs
       \/ fnInput \in SparklineInputs
    /\ fnResult = NULL
    /\ timeRangeFilter = NULL
    /\ deliveredRange = NULL
    /\ document = {}
    /\ objects = {}
    /\ drawn = {}
    /\ console = {}
    /\ mainContent = <<>>
    /\ theChart = NULL
    /\ canvas = NULL
    /\ pointer = NULL
    /\ csvInput = NULL
    /\ text = <<>>
    /\ lines = <<>>
    /\ data = <<>>
    /\ rawData = <<>>
    /\ originalRawData = [defined |-> FALSE, value |-> <<>>]
    /\ filterManager = NULL
    /\ metricsCalculator = NULL
    /\ renderedMetrics = NULL
    /\ renderedDeltas = NULL
    /\ now = NULL
    /\ renderLog = <<>>
    /\ shownRows = NULL
    /\ pageIdle
    /\ options = NULL

\* new MetricsCalculator(data).getDelta(metric)
GetDelta ==
    /\ pc = "call"
    /\ fnInput.kind = "delta"
    /\ fnResult' = getDelta(deltaRows(fnInput), fnInput.metric, fnInput.today)
    /\ pc' = "return"
    /\ UNCHANGED fnInput
    /\ UNCHANGED csvVars
    /\ UNCHANGED appVars
    /\ UNCHANGED rangeVars
    /\ UNCHANGED initVars
    /\ UNCHANGED chartVars
    /\ UNCHANGED pageVars

\* initializeCharts(normalizedData), lines 323-326: the severity
\* distribution of the normalized records.
GetSeverityDistribution ==
    /\ pc = "call"
    /\ fnInput.kind = "severity"
    /\ fnResult' = getSeverityDistribution(normalizeData(severityRows(fnInput)))
    /\ pc' = "return"
    /\ UNCHANGED fnInput
    /\ UNCHANGED csvVars
    /\ UNCHANGED appVars
    /\ UNCHANGED rangeVars
    /\ UNCHANGED initVars
    /\ UNCHANGED chartVars
    /\ UNCHANGED pageVars

\* normalizeData(rawData), init() line 58.
NormalizeData ==
    /\ pc = "call"
    /\ fnInput.kind = "normalize"
    /\ fnResult' = callNormalizeData(fnInput.rows)
    /\ pc' = "return"
    /\ UNCHANGED fnInput
    /\ UNCHANGED csvVars
    /\ UNCHANGED appVars
    /\ UNCHANGED rangeVars
    /\ UNCHANGED initVars
    /\ UNCHANGED chartVars
    /\ UNCHANGED pageVars

\* new ChartDataProcessor(data).getMonthlyTrends(months)
GetMonthlyTrends ==
    /\ pc = "call"
    /\ fnInput.kind = "trends"
    /\ fnResult' = getMonthlyTrends(fnInput.rows, fnInput.months)
    /\ pc' = "return"
    /\ UNCHANGED fnInput
    /\ UNCHANGED csvVars
    /\ UNCHANGED appVars
    /\ UNCHANGED rangeVars
    /\ UNCHANGED initVars
    /\ UNCHANGED chartVars
    /\ UNCHANGED pageVars

\* new AllOwnersRadialChart(id, data): this.processOwnershipData()
ProcessOwnershipData ==
    /\ pc = "call"
    /\ fnInput.kind = "ownership"
    /\ fnResult' = processOwnershipData(ownerRows(fnInput.names,
                                                   fnInput.counts))
    /\ pc' = "return"
    /\ UNCHANGED fnInput
    /\ UNCHANGED csvVars
    /\ UNCHANGED appVars
    /\ UNCHANGED rangeVars
    /\ UNCHANGED initVars
    /\ UNCHANGED chartVars
    /\ UNCHANGED pageVars

\* new ChartDataProcessor(data).getSparklineData(metric, points)
GetSparklineData ==
    /\ pc = "call"
    /\ fnInput.kind = "sparkline"
    /\ fnResult' = getSparklineData(fnInput.rows, fnInput.metric,
                                    fnInput.points)
    /\ pc' = "return"
    /\ UNCHANGED fnInput
    /\ UNCHANGED csvVars
    /\ UNCHANGED appVars
    /\ UNCHANGED rangeVars
    /\ UNCHANGED initVars
    /\ UNCHANGED chartVars
    /\ UNCHANGED pageVars

NextFn ==
    \/ GetDelta
    \/ GetSeverityDistribution
    \/ NormalizeData
    \/ GetMonthlyTrends
    \/ ProcessOwnershipData
    \/ GetSparklineData

SpecFn == InitFn /\ [][NextFn]_vars

Returned(kind) == pc = "return" /\ fnInput.kind = kind

\* C12: getDelta returns 0 when the values of the previous and of the
\* current month are both 0, 100 when the previous is 0 and the current is
\* positive, and otherwise 100 * (current - previous) / previous rounded to
\* the nearest integer (a half upwards, as Math.round does); the month
\* before January is December of the year before.
C12_DeltaByCases ==
    Returned("delta") =>
        LET counted == countsFor(fnInput.metric, fnInput.rowKind)
            c == IF counted THEN fnInput.current ELSE 0
            p == IF counted THEN fnInput.previous ELSE 0
            r == fnResult
        IN  /\ (p = 0 /\ c = 0) => r = 0
            /\ (p = 0 /\ c > 0) => r = 100
            /\ p > 0 => /\ 2 * r * p <= 200 * (c - p) + p
                        /\ 200 * (c - p) + p < 2 * (r + 1) * p

C12_Witness ==
    /\ Returned("delta")
    /\ fnInput.today = jsDate(2024, 0)
    /\ fnInput.metric = "active" /\ fnInput.rowKind = <<"5", "Active">>
    /\ fnInput.previous = 8 /\ fnInput.current = 7
    /\ fnResult = -12

SeverityLabels == <<"Critical", "High", "Medium", "Low">>

labelOfLevel(level) ==
    CASE level = "5" -> "Critical"
      [] level = "4" -> "High"
      [] level = "3" -> "Medium"
      [] level = "2" -> "Medium"
      [] level = "1" -> "Low"

\* C13: each severity 1..5 has one label (5 Critical, 4 High, 3 and 2
\* Medium, 1 Low), the same in the normalizer and in the severity
\* distribution: the distribution is always the four buckets Critical,
\* High, Medium, Low in this order, the value of each the number of records
\* the normalizer gave that label (zero when none), and the values sum to
\* the number of records whose severity is in 1..5.
C13_SeverityBuckets ==
    Returned("severity") =>
        LET rows == normalizeData(severityRows(fnInput))
            levels == {"1", "2", "3", "4", "5"}
        IN  /\ \A level \in levels :
                  getSeverityText(level) = labelOfLevel(level)
            /\ Len(fnResult) = 4
            /\ \A b \in 1..4 :
                  /\ fnResult[b].label = SeverityLabels[b]
                  /\ fnResult[b].value
                       = Cardinality({k \in 1..Len(rows) :
                            rows[k]["severityText"] = SeverityLabels[b]})
                  /\ fnResult[b].value
                       = Cardinality({k \in 1..Len(rows) :
                            /\ rows[k]["Severity"] \in levels
                            /\ labelOfLevel(rows[k]["Severity"])
                                 = SeverityLabels[b]})
            /\ fnResult[1].value + fnResult[2].value + fnResult[3].value
                 + fnResult[4].value
                 = Cardinality({k \in 1..Len(rows) :
                                  rows[k]["Severity"] \in levels})

C13_Witness ==
    /\ Returned("severity")
    /\ fnInput.severities = <<"2", "6", "3">>
    /\ fnResult[3].value = 2
    /\ fnResult[1].value = 0 /\ fnResult[2].value = 0 /\ fnResult[4].value = 0

DerivedKeys == {"severityText", "statusNormalized", "year", "month"}
SourceKeys == {"Severity", "Vuln Status", "First Detected"}

derivedOf(row) == [key \in DerivedKeys |-> get(row, key)]

\* The record's source fields alone.
sourceOf(row) == [key \in SourceKeys \cap DOMAIN row |-> row[key]]

\* C14: normalizeData leaves the records given unchanged and returns one
\* record for each, holding its fields; the derived values (severity
\* label, status label, year, month) depend on the source fields alone, so
\* normalizing the same records again, or normalizing the records
\* returned, gives the same derived values.
C14_NormalizePure ==
    Returned("normalize") =>
        LET rows == fnInput.rows
            out == fnResult.returned
        IN  /\ fnResult.source = rows
            /\ Len(out) = Len(rows)
            /\ \A k \in 1..Len(rows) :
                  /\ \A key \in DOMAIN rows[k] \ DerivedKeys :
                        get(out[k], key) = rows[k][key]
                  /\ derivedOf(out[k])
                       = derivedOf(normalizeRow(sourceOf(rows[k])))
                  /\ derivedOf(normalizeData(rows)[k]) = derivedOf(out[k])
                  /\ derivedOf(normalizeData(out)[k]) = derivedOf(out[k])

C14_Witness ==
    /\ Returned("normalize")
    /\ Len(fnInput.rows) = 2
    /\ get(fnInput.rows[1], "severityText") = undefined
    /\ get(fnInput.rows[2], "severityText") = "Low"
    /\ get(fnInput.rows[2], "Severity") = "5"
    /\ get(fnInput.rows[2], "year") = undefined
    /\ fnResult.returned[1]["severityText"] = "Critical"
    /\ fnResult.returned[1]["year"] = jsNumber(2024)
    /\ fnResult.returned[2]["severityText"] = "Critical"
    /\ fnResult.returned[2]["month"] = NaN

\* The months, as (year, month from 1), of the rows with a parsable date.
monthsOf(rows) ==
    {monthKey(newDate(get(rows[k], "First Detected"))) :
        k \in {i \in 1..Len(rows) :
                 ~isInvalid(newDate(get(rows[i], "First Detected")))}}

earlier(m1, m2) == m1[1] < m2[1] \/ (m1[1] = m2[1] /\ m1[2] < m2[2])

rowsIn(rows, month) ==
    {k \in 1..Len(rows) :
        LET date == newDate(get(rows[k], "First Detected"))
        IN  ~isInvalid(date) /\ monthKey(date) = month}

\* C15: getMonthlyTrends groups the records by the year and month of their
\* first-detected date, leaving out those whose date cannot be parsed; the
\* labels are the most recent N months that have records (N 12 unless
\* given), oldest first; the three series total, active, fixed are as long
\* as the labels, total the number of the month's records and active +
\* fixed at most total.  The scenario's rows give the two buckets 2024-01
\* and 2024-02 with one record each.
C15_MonthlyTrends ==
    Returned("trends") =>
        LET rows == fnInput.rows
            labels == fnResult.labels
            total == fnResult.datasets[1].data
            active == fnResult.datasets[2].data
            fixed == fnResult.datasets[3].data
            all == monthsOf(rows)
            recent == {m \in all :
                         Cardinality({x \in all : earlier(m, x)})
                           < fnInput.months}
        IN  /\ Range(labels) = recent
            /\ \A i, j \in 1..Len(labels) :
                  i < j => earlier(labels[i], labels[j])
            /\ Len(fnResult.datasets) = 3
            /\ Len(total) = Len(labels)
            /\ Len(active) = Len(labels)
            /\ Len(fixed) = Len(labels)
            /\ \A i \in 1..Len(labels) :
                  /\ total[i] = Cardinality(rowsIn(rows, labels[i]))
                  /\ active[i] = Cardinality({k \in rowsIn(rows, labels[i]) :
                        isActiveText(get(rows[k], "Vuln Status"))})
                  /\ fixed[i] = Cardinality({k \in rowsIn(rows, labels[i]) :
                        isFixedText(get(rows[k], "Vuln Status"))})
                  /\ active[i] + fixed[i] <= total[i]
            /\ (isScenario(rows) /\ fnInput.months = DefaultMonths) =>
                  /\ labels = <<(<<2024, 1>>), <<2024, 2>>>>
                  /\ total = <<1, 1>>

C15_ScenarioWitness ==
    /\ Returned("trends")
    /\ isScenario(fnInput.rows)
    /\ fnInput.months = DefaultMonths
    /\ Len(fnResult.labels) = 2

C15_Witness ==
    /\ Returned("trends")
    /\ fnInput.months = DefaultMonths
    /\ Len(fnInput.rows) = 15
    /\ get(fnInput.rows[1], "First Detected") = "2024-02-15"
    /\ Len(fnResult.labels) = 12
    /\ fnResult.labels[1] = <<2023, 3>>
    /\ fnResult.labels[12] = <<2024, 2>>
    /\ fnResult.datasets[1].data[11] = 2
    /\ fnResult.datasets[2].data[11] = 1
    /\ fnResult.datasets[3].data[11] = 1

ownerLabel(name) == IF name = "" THEN "Unknown" ELSE name

RECURSIVE sumOf(_, _)
sumOf(f, S) ==
    IF S = {} THEN 0
    ELSE LET x == CHOOSE y \in S : TRUE IN f[x] + sumOf(f, S \ {x})

\* C16: for a non-empty record set processOwnershipData returns at most 6
\* categories: the owners with the highest counts, up to 5 of them, each
\* with its count, highest first (a blank owner as "Unknown"), and one
\* category "Others", the last, exactly when there are more than 5 owners,
\* its value the sum of the other owners' counts; the values sum to the
\* number of records and the percentages, count / records * 100, to 100.
\* The example's 8 owners give 6 categories, "Others" with 5.
C16_TopOwnersAndOthers ==
    Returned("ownership") =>
        LET names == fnInput.names
            present == {k \in 1..Len(names) : fnInput.counts[k] > 0}
            countOf == [k \in present |-> fnInput.counts[k]]
            records == sumOf(countOf, present)
            cats == fnResult.categories
            n == Len(cats)
            named == IF Cardinality(present) > 5 THEN 5
                     ELSE Cardinality(present)
            shown == {k \in present :
                        \E i \in 1..named : cats[i].label = ownerLabel(names[k])}
        IN  /\ n <= 6
            /\ n = named + (IF Cardinality(present) > 5 THEN 1 ELSE 0)
            /\ Cardinality(shown) = named
            /\ \A i \in 1..named : \E k \in shown :
                  /\ cats[i].label = ownerLabel(names[k])
                  /\ cats[i].value = countOf[k]
            /\ \A i, j \in 1..named : i < j => cats[i].value >= cats[j].value
            /\ \A k \in shown, m \in present \ shown : countOf[k] >= countOf[m]
            /\ Cardinality(present) > 5 =>
                  /\ cats[n].label = "Others"
                  /\ cats[n].value = sumOf(countOf, present \ shown)
            /\ sumOf([i \in 1..n |-> cats[i].value], 1..n) = records
            /\ fnResult.total = records
            /\ \A i \in 1..n : /\ cats[i].percentage.of = records
                                 /\ cats[i].percentage.per = cats[i].value * 100
            /\ sumOf([i \in 1..n |-> cats[i].percentage.per], 1..n)
                 = 100 * records
            /\ fnInput.counts = ExampleCounts =>
                  n = 6 /\ cats[6].label = "Others" /\ cats[6].value = 5

C16_Witness ==
    /\ Returned("ownership")
    /\ fnInput.counts = <<1, 2, 1, 2, 1, 2, 2>>
    /\ Len(fnResult.categories) = 6
    /\ fnResult.categories[4].label = "Unknown"
    /\ fnResult.categories[5].value = 1
    /\ fnResult.categories[6].label = "Others"
    /\ fnResult.categories[6].value = 2


(***************************************************************************)
(* The time-range control on the loaded dashboard: time-range-filter.js    *)
(* constructor, populateYears, setDefaultRange, updateDisplayText and      *)
(* handleDateChange, with app.js handleTimeRangeChange as its callback.    *)
(***************************************************************************)
\* A select set to a value that none of its options carries shows no
\* option and reads '', which updateState turns into null (written 0).
selectValue(value, offered) == IF value \in offered THEN value ELSE 0

\* The label of the control: 'All time', or the two months and years.
updateDisplayText(sel) ==
    IF sel.fromYear = 0 \/ sel.toYear = 0
    THEN [allTime |-> TRUE, fromMonth |-> 0, fromYear |-> 0,
          toMonth |-> 0, toYear |-> 0]
    ELSE [allTime |-> FALSE, fromMonth |-> sel.fromMonth,
          fromYear |-> sel.fromYear, toMonth |-> sel.toMonth,
          toYear |-> sel.toYear]

\* The fields after the constructor: all null, the label as the page has it.
newTimeRangeFilter ==
    [fromYear |-> 0, fromMonth |-> 0, toYear |-> 0, toMonth |-> 0,
     display |-> updateDisplayText([fromYear |-> 0, toYear |-> 0])]

setDefaultRange(filter, years, today) ==
    LET currentYear == today.fullYear
        currentMonth == today.month + 1
        fromMonth == IF currentMonth - 11 <= 0 THEN currentMonth - 11 + 12
                     ELSE currentMonth - 11
        fromYear == IF currentMonth - 11 <= 0 THEN currentYear - 1
                    ELSE currentYear
        sel == [filter EXCEPT !.fromYear = selectValue(fromYear, years),
                              !.fromMonth = selectValue(fromMonth, 1..12),
                              !.toYear = selectValue(currentYear, years),
                              !.toMonth = selectValue(currentMonth, 1..12)]
    IN  [sel EXCEPT !.display = updateDisplayText(sel)]

populateYears(filter, years, today) ==
    IF years = {} THEN filter ELSE setDefaultRange(filter, years, today)

RangeControls == {"fromYear", "fromMonth", "toYear", "toMonth"}

\* The values a select of the control offers, its placeholder included.
offeredBy(control, rows) ==
    IF control \in {"fromYear", "toYear"}
    THEN getYearsFromData(rows) \cup {0}
    ELSE MonthChoices \cup {0}

NoRange ==
    [defined |-> FALSE,
     value |-> getRange([fromYear |-> 0, fromMonth |-> 0, toYear |-> 0,
                         toMonth |-> 0])]

\* The data files of this part: the files of most rows.
RangeFiles == {rows \in DataFiles : Len(rows) = MaxRecs}

InitRange ==
    /\ pc = "init"
    /\ rawData \in RangeFiles
    /\ originalRawData = [defined |-> FALSE, value |-> <<>>]
    /\ filterManager = newFilterManager(normalizeData(rawData))
    /\ metricsCalculator = [data |-> normalizeData(rawData)]
    /\ renderedMetrics = metricValues(metricsCalculator)
    /\ now = Today
    /\ renderedDeltas = metricDeltas(metricsCalculator, now)
    /\ renderLog = <<"metrics", "table", "charts", "timeline",
                     "applicationStatus", "sparklines">>
    /\ shownRows = NULL
    /\ pageIdle
    /\ options = [key \in FilterKeys |->
                    getUniqueValues(filterManager, columnOf(key))]
    /\ timeRangeFilter = populateYears(newTimeRangeFilter,
                                       getYearsFromData(rawData), now)
    /\ deliveredRange = NoRange
    /\ document = {}
    /\ objects = {}
    /\ drawn = {}
    /\ console = {}
    /\ mainContent = <<>>
    /\ theChart = NULL
    /\ canvas = NULL
    /\ pointer = NULL
    /\ csvInput = NULL
    /\ text = <<>>
    /\ lines = <<>>
    /\ data = <<>>
    /\ fnInput = NULL
    /\ fnResult = NULL

\* The change listener of one select of the control (line 135):
\* handleDateChange reads the four selects, rewrites the label, and calls
\* the callback with getRange() unless isValidRange() fails.
HandleDateChange(control, value) ==
    /\ pc \in {"init", "time", "rejected"}
    /\ value \in offeredBy(control, rawData)
    /\ value # timeRangeFilter[control]
    /\ LET sel == [timeRangeFilter EXCEPT ![control] = value]
           shown == [sel EXCEPT !.display = updateDisplayText(sel)]
       IN  /\ timeRangeFilter' = shown
           /\ IF ~isValidRange(shown)
              THEN /\ pc' = "rejected"
                   /\ UNCHANGED <<originalRawData, filterManager,
                                  metricsCalculator, renderedMetrics,
                                  renderedDeltas, renderLog, deliveredRange>>
              ELSE /\ handleTimeRangeChange(getRange(shown))
                   /\ deliveredRange' = [defined |-> TRUE,
                                         value |-> getRange(shown)]
                   /\ pc' = "time"
    /\ UNCHANGED <<rawData, options, now, shownRows>>
    /\ UNCHANGED csvVars
    /\ UNCHANGED fnVars
    /\ UNCHANGED initVars
    /\ UNCHANGED chartVars
    /\ UNCHANGED pageVars

NextRange ==
    \E control \in RangeControls :
        \E value \in offeredBy(control, rawData) :
            HandleDateChange(control, value)

SpecRange == InitRange /\ [][NextRange]_vars

\* A selection with both dates chosen, the to-date before the from-date.
toBeforeFrom(sel) ==
    /\ sel.fromYear # 0 /\ sel.fromMonth # 0
    /\ sel.toYear # 0 /\ sel.toMonth # 0
    /\ \/ sel.toYear < sel.fromYear
       \/ sel.toYear = sel.fromYear /\ sel.toMonth < sel.fromMonth

\* The base set the last delivered range left in the filter engine.
baseInEffect ==
    IF deliveredRange.defined
    THEN filterByTime(rawData, deliveredRange.value)
    ELSE normalizeData(rawData)

SparklineNames ==
    {"sparklines.total", "sparklines.active", "sparklines.fixed",
     "sparklines.critical"}

\* Object.values(charts), in the order initializeCharts fills it.
RenderedCharts ==
    <<"charts.barChart", "charts.pieChart", "charts.lineChart",
      "charts.radialChart">>

ChartNames ==
    Range(RenderedCharts) \cup {"timelineChart", "applicationStatusChart"}
    \cup SparklineNames

\* The id each chart looks up in the page.
surfaceOf(chart) ==
    CASE chart = "charts.barChart" -> "severity-bar-chart"
      [] chart = "charts.pieChart" -> "severity-pie-chart"
      [] chart = "charts.lineChart" -> "trends-line-chart"
      [] chart = "charts.radialChart" -> "all-owners-radial-chart"
      [] chart = "timelineChart" -> "timeline-chart"
      [] chart = "applicationStatusChart" -> "application-status-chart"
      [] chart = "sparklines.total" -> "sparkline-total"
      [] chart = "sparklines.active" -> "sparkline-active"
      [] chart = "sparklines.fixed" -> "sparkline-fixed"
      [] chart = "sparklines.critical" -> "sparkline-critical"

ChartSurfaces == {surfaceOf(chart) : chart \in ChartNames}

\* The constructors that write console.error before returning when the
\* surface is missing; PieChart and LineChart return silently.
constructorLogs(chart) ==
    chart \notin {"charts.pieChart", "charts.lineChart"}

\* The constructors that end by drawing (render(), or init() for the
\* radial chart).
constructorDraws(chart) ==
    chart \in {"charts.barChart", "charts.pieChart", "charts.radialChart",
               "applicationStatusChart"}

\* The render() methods that begin with `if (!this.ctx) return`.
renderIsGuarded(chart) ==
    chart \in {"timelineChart", "applicationStatusChart"} \cup SparklineNames

\* new <Chart>(id, ...): the constructor returns early, the object left
\* without canvas, context, data and options, when the page has no
\* element of that id.  A logged error is written as the id it names.
newChart(chart, doc) ==
    [drawn |-> IF surfaceOf(chart) \in doc /\ constructorDraws(chart)
               THEN {surfaceOf(chart)} ELSE {},
     console |-> IF surfaceOf(chart) \notin doc /\ constructorLogs(chart)
                 THEN {surfaceOf(chart)} ELSE {}]

\* chart.render(): without its surface an unguarded render() reads a
\* property of the undefined this.ctx (this.options for the radial chart)
\* and throws a TypeError.
render(chart, doc) ==
    [threw |-> surfaceOf(chart) \notin doc /\ ~renderIsGuarded(chart),
     drawn |-> IF surfaceOf(chart) \in doc THEN {surfaceOf(chart)} ELSE {}]

Union(sets) == UNION sets

initializeCharts(doc) ==
    LET made == Range(RenderedCharts) \cup {"timelineChart"}
        throwing == {i \in DOMAIN RenderedCharts :
                        render(RenderedCharts[i], doc).threw}
        rendered == {i \in DOMAIN RenderedCharts :
                        \A j \in throwing : i < j}
    IN  [objects |-> {"chartDataProcessor"} \cup made,
         drawn |-> Union({newChart(chart, doc).drawn : chart \in made})
                   \cup render("timelineChart", doc).drawn
                   \cup Union({render(RenderedCharts[i], doc).drawn :
                                 i \in rendered}),
         console |-> Union({newChart(chart, doc).console : chart \in made}),
         threw |-> throwing # {}]

initializeSparklines(doc) ==
    [objects |-> SparklineNames,
     drawn |-> Union({newChart(chart, doc).drawn \cup render(chart, doc).drawn :
                        chart \in SparklineNames}),
     console |-> Union({newChart(chart, doc).console :
                          chart \in SparklineNames})]

\* sidebar.js loadSidebar: a failed fetch is caught and logged inside.
loadSidebar_rethrows(ok) ==
    [threw |-> ~ok,
     drawn |-> IF ok THEN {"sidebar-container"} ELSE {},
     console |-> IF ok THEN {} ELSE {"Error loading sidebar:"}]

loadSidebar(ok) ==
    [threw |-> FALSE,
     drawn |-> IF ok THEN {"sidebar-container"} ELSE {},
     console |-> IF ok THEN {} ELSE {"Error loading sidebar:"}]

\* csv-parser.js loadCSV: a failed fetch is logged and thrown again.
loadCSV(ok) ==
    [threw |-> ~ok,
     console |-> IF ok THEN {} ELSE {"Error loading CSV:"}]

ErrorMessage == "Failed to load dashboard. Please refresh the page."

\* showError replaces the content of .main-content by the message.
showError(message) == <<message>>

\* init(), lines 56-97: what runs between the load of the file and the
\* end of the try block.
afterLoad(doc) ==
    LET managers == {"rawData", "filterManager", "metricsCalculator",
                     "dataTable"}
        charts == initializeCharts(doc)
        status == newChart("applicationStatusChart", doc)
        sparks == initializeSparklines(doc)
    IN  IF charts.threw
        THEN [threw |-> TRUE, objects |-> managers \cup charts.objects,
              drawn |-> charts.drawn, console |-> charts.console]
        ELSE [threw |-> FALSE,
              objects |-> managers \cup charts.objects
                          \cup {"applicationStatusChart", "timeRangeFilter"}
                          \cup sparks.objects,
              drawn |-> charts.drawn \cup status.drawn \cup sparks.drawn,
              console |-> charts.console
                          \cup newChart("timelineChart", doc).console
                          \cup status.console \cup sparks.console]

\* The page before init(): any of the chart surfaces may be missing.
InitPage ==
    /\ pc = "start"
    /\ document \in SUBSET ChartSurfaces
    /\ objects = {}
    /\ drawn = {}
    /\ console = {}
    /\ mainContent = <<"dashboard">>
    /\ theChart = NULL
    /\ canvas = NULL
    /\ pointer = NULL
    /\ rawData = <<>>
    /\ originalRawData = [defined |-> FALSE, value |-> <<>>]
    /\ filterManager = NULL
    /\ metricsCalculator = NULL
    /\ renderedMetrics = NULL
    /\ renderedDeltas = NULL
    /\ now = Today
    /\ renderLog = <<>>
    /\ shownRows = NULL
    /\ pageIdle
    /\ options = NULL
    /\ timeRangeFilter = NULL
    /\ deliveredRange = NULL
    /\ csvInput = NULL
    /\ text = <<>>
    /\ lines = <<>>
    /\ data = <<>>
    /\ fnInput = NULL
    /\ fnResult = NULL

\* The catch block of init() (lines 99-102).
catch ==
    /\ mainContent' = showError(ErrorMessage)
    /\ pc' = "failed"

\* init() up to await loadSidebar().
StartInit ==
    /\ pc = "start"
    /\ objects' = {"themeManager"}
    /\ pc' = "awaitSidebar"
    /\ UNCHANGED <<document, drawn, console, mainContent>>
    /\ UNCHANGED <<csvVars, appVars, fnVars, rangeVars, chartVars, pageVars>>

\* The fetch of the sidebar settles; init() goes on to await loadCSV().
SidebarSettled(ok) ==
    /\ pc = "awaitSidebar"
    /\ LET sidebar == loadSidebar(ok)
       IN  /\ drawn' = drawn \cup sidebar.drawn
           /\ IF sidebar.threw
              THEN /\ console' = console \cup sidebar.console
                                   \cup {"Initialization error:"}
                   /\ catch
              ELSE /\ console' = console \cup sidebar.console
                   /\ pc' = "awaitCSV"
                   /\ UNCHANGED mainContent
    /\ UNCHANGED <<document, objects>>
    /\ UNCHANGED <<csvVars, appVars, fnVars, rangeVars, chartVars, pageVars>>

\* The fetch of the data file settles; init() runs to its end.
CsvSettled(ok) ==
    /\ pc = "awaitCSV"
    /\ LET loaded == loadCSV(ok)
           rest == afterLoad(document)
       IN  IF loaded.threw
           THEN /\ console' = console \cup loaded.console
                                \cup {"Initialization error:"}
                /\ catch
                /\ UNCHANGED <<objects, drawn>>
           ELSE /\ objects' = objects \cup rest.objects
                /\ drawn' = drawn \cup rest.drawn
                /\ IF rest.threw
                   THEN /\ console' = console \cup rest.console
                                        \cup {"Initialization error:"}
                        /\ catch
                   ELSE /\ console' = console \cup rest.console
                        /\ pc' = "done"
                        /\ UNCHANGED mainContent
    /\ UNCHANGED document
    /\ UNCHANGED <<csvVars, appVars, fnVars, rangeVars, chartVars, pageVars>>

NextInit ==
    \/ StartInit
    \/ \E ok \in BOOLEAN : SidebarSettled(ok)
    \/ \E ok \in BOOLEAN : CsvSettled(ok)

SpecInit == InitPage /\ [][NextInit]_vars

\* The charts whose surface the page lacks.
missingCharts == {chart \in ChartNames : surfaceOf(chart) \notin document}

\* C19: when the data file has loaded, a chart whose surface is missing is
\* skipped and never drawn, every other chart is drawn, init() runs to its
\* end and the error panel is not shown.
C19_MissingSurfaceSkipsOneChart ==
    (pc \in {"done", "failed"} /\ "Error loading CSV:" \notin console) =>
        /\ pc = "done"
        /\ mainContent = <<"dashboard">>
        /\ theChart = NULL
        /\ canvas = NULL
        /\ pointer = NULL
        /\ \A chart \in ChartNames :
              surfaceOf(chart) \in drawn <=> chart \notin missingCharts

\* C20: a failed load of the sidebar leaves init() running, towards the
\* load of the data file; a failed load of the data file ends init() with
\* nothing but the theme manager created, no chart or sparkline drawn, and
\* the main content replaced by the one error message.  With every surface
\* present, only the failed load of the data file ends init() that way.
C20_OnlyDataLoadIsFatal ==
    /\ ("Error loading sidebar:" \in console
        /\ "Error loading CSV:" \notin console
        /\ ChartSurfaces \subseteq document) =>
          /\ pc \in {"awaitCSV", "done"}
          /\ mainContent = <<"dashboard">>
          /\ theChart = NULL
          /\ canvas = NULL
          /\ pointer = NULL
          /\ pc = "done" =>
                /\ ChartSurfaces \subseteq drawn
                /\ {"filterManager", "dataTable"} \subseteq objects
    /\ "Error loading CSV:" \in console =>
          /\ pc = "failed"
          /\ objects = {"themeManager"}
          /\ drawn \cap ChartSurfaces = {}
          /\ mainContent = <<ErrorMessage>>
    /\ (pc = "failed" /\ ChartSurfaces \subseteq document) =>
          "Error loading CSV:" \in console

\* The sidebar failed to load, and after it the data file.
C20_Witness ==
    /\ pc = "failed"
    /\ "Error loading sidebar:" \in console
    /\ "Error loading CSV:" \in console
    /\ mainContent = <<ErrorMessage>>


(***************************************************************************)
(* The datasets of the timeline chart, the application status chart and    *)
(* the sparklines.                                                         *)
(***************************************************************************)
MaxOf(S) == CHOOSE n \in S : \A m \in S : m <= n
MinOf(S) == CHOOSE n \in S : \A m \in S : n <= m

\* The months since year 0 of a date, to compare and step months.
monthNumber(date) == date.fullYear * 12 + date.month

firstDetectedOf(row) == newDate(get(row, "First Detected"))

\* timeline-chart.js processTimelineData(rawData, null): a bucket for every
\* month from the earliest to the latest dated row, the month of the clock
\* when no row has a date; each dated row counted in its month.
processTimelineData(rows, today) ==
    LET dated == {k \in 1..Len(rows) : ~isInvalid(firstDetectedOf(rows[k]))}
        months == {monthNumber(firstDetectedOf(rows[k])) : k \in dated}
        lo == IF months = {} THEN monthNumber(today) ELSE MinOf(months)
        hi == IF months = {} THEN monthNumber(today) ELSE MaxOf(months)
    IN  [i \in 1..(hi - lo + 1) |->
            [year |-> (lo + i - 1) \div 12,
             month |-> ((lo + i - 1) % 12) + 1,
             count |-> Cardinality(
                 {k \in dated :
                    monthNumber(firstDetectedOf(rows[k])) = lo + i - 1})]]

TopApplications == 15

indexOfApplication(entries, app) ==
    LET at == {i \in 1..Len(entries) : entries[i].application = app}
    IN  IF at = {} THEN 0 ELSE CHOOSE i \in at : TRUE

indexOfStatus(statuses, status) ==
    LET at == {i \in 1..Len(statuses) : statuses[i].status = status}
    IN  IF at = {} THEN 0 ELSE CHOOSE i \in at : TRUE

\* statuses.set(status, (statuses.get(status) || 0) + 1): a Map keeps its
\* keys in the order they were first set.
countStatus(statuses, status) ==
    LET i == indexOfStatus(statuses, status)
    IN  IF i = 0 THEN Append(statuses, [status |-> status, count |-> 1])
        ELSE [statuses EXCEPT ![i].count = @ + 1]

\* The callback of rawData.forEach in processData (lines 61-76).
countApplication(entries, row) ==
    LET app == IF truthy(get(row, "Application"))
               THEN get(row, "Application") ELSE "Unknown"
        status == IF truthy(get(row, "Vuln Status"))
                  THEN get(row, "Vuln Status") ELSE "Unknown"
        i == indexOfApplication(entries, app)
    IN  IF i = 0
        THEN Append(entries, [application |-> app,
                              statuses |-> countStatus(<<>>, status),
                              total |-> 1])
        ELSE [entries EXCEPT
                ![i] = [application |-> app,
                        statuses |-> countStatus(entries[i].statuses, status),
                        total |-> entries[i].total + 1]]

RECURSIVE countApplications(_, _)
countApplications(entries, rows) ==
    IF rows = <<>> THEN entries
    ELSE countApplications(countApplication(entries, Head(rows)), Tail(rows))

\* Array.prototype.sort by descending total; the sort is stable.
RECURSIVE insertByTotal(_, _)
insertByTotal(sorted, entry) ==
    IF sorted = <<>> THEN <<entry>>
    ELSE IF entry.total > Head(sorted).total
    THEN <<entry>> \o sorted
    ELSE <<Head(sorted)>> \o insertByTotal(Tail(sorted), entry)

RECURSIVE sortByTotal(_)
sortByTotal(entries) ==
    IF entries = <<>> THEN <<>>
    ELSE insertByTotal(sortByTotal(SubSeq(entries, 1, Len(entries) - 1)),
                       entries[Len(entries)])

\* application-status-chart.js processData
processData(rows) ==
    LET sorted == sortByTotal(countApplications(<<>>, rows))
    IN  SubSeq(sorted, 1, IF Len(sorted) < TopApplications THEN Len(sorted)
                          ELSE TopApplications)

SparklineMonths == 12

\* app.js generateSparklineData: for each of the twelve months that end
\* with the month of the clock, the rows first detected in it, those of
\* them with status 'Active', with status 'Fixed', and with Severity
\* 'Critical' or 'High'.
generateSparklineData(rows, today) ==
    LET monthAt(j) == monthNumber(today) - (SparklineMonths - j)
        monthData(j) ==
            SelectSeq(rows, LAMBDA item :
                /\ ~isInvalid(firstDetectedOf(item))
                /\ monthNumber(firstDetectedOf(item)) = monthAt(j))
        counts(Test(_)) ==
            [j \in 1..SparklineMonths |->
                Len(SelectSeq(monthData(j), Test))]
    IN  [total |-> counts(LAMBDA item : TRUE),
         active |-> counts(LAMBDA item : get(item, "Vuln Status") = "Active"),
         fixed |-> counts(LAMBDA item : get(item, "Vuln Status") = "Fixed"),
         critical |-> counts(LAMBDA item :
                         get(item, "Severity") \in {"Critical", "High"})]


(***************************************************************************)
(* A chart instance: its dataset, its hover fields, what render() does    *)
(* with them and what its pointer listeners do.  Indices are those of the  *)
(* code, from 0.  The sizes the page gives (clientWidth, the bounding      *)
(* rectangle) are fixed; heights and paddings are those of the code.       *)
(***************************************************************************)
ChartKinds == {"bar", "pie", "line", "timeline", "applicationStatus",
               "sparkline"}

\* The kinds whose class has a pointer hit test.
HitTested == {"bar", "pie", "timeline", "applicationStatus"}

BarBox ==
    [width |-> 470, height |-> 300,
     padding |-> [top |-> 20, right |-> 20, bottom |-> 60, left |-> 50]]

TimelineBox ==
    [width |-> 680, height |-> 280,
     padding |-> [top |-> 40, right |-> 20, bottom |-> 60, left |-> 60]]

StatusBox ==
    [width |-> 700, height |-> 400,
     padding |-> [top |-> 40, right |-> 20, bottom |-> 80, left |-> 120]]

chartWidth(box) == box.width - box.padding.left - box.padding.right
chartHeight(box) == box.height - box.padding.top - box.padding.bottom

NegInfinity == [type |-> "-Infinity"]

\* Math.max(...values)
mathMax(values) ==
    IF values = <<>> THEN NegInfinity ELSE jsNumber(MaxOf(Range(values)))

valuesOf(entries, field) == [i \in 1..Len(entries) |-> entries[i][field]]

RECURSIVE sumValues(_)
sumValues(values) ==
    IF values = <<>> THEN 0 ELSE Head(values) + sumValues(Tail(values))

\* No segment hovered: index -1, no status.
NoSegment == <<-1, NULL>>

\* The dataset each chart is given for the rows of the dashboard (app.js
\* initializeCharts, initializeSparklines, updateCharts, the update methods).
datasetOf(kind, rows, today) ==
    CASE kind \in {"bar", "pie"} ->
            getSeverityDistribution(normalizeData(rows))
      [] kind = "line" -> getMonthlyTrends(normalizeData(rows), DefaultMonths)
      [] kind = "timeline" -> processTimelineData(rows, today)
      [] kind = "applicationStatus" -> processData(rows)
      [] kind = "sparkline" -> generateSparklineData(rows, today).total

newChartInstance(kind, rows, today) ==
    [kind |-> kind, data |-> datasetOf(kind, rows, today),
     hoveredIndex |-> -1, hoveredStatus |-> NULL]

hovered(c) == <<c.hoveredIndex, c.hoveredStatus>>

\* The listeners the constructor attaches to the canvas.  BarChart defines
\* setupEventListeners but its constructor never calls it.
listens_barToo(kind) == kind \in HitTested

listens(kind) == kind \in HitTested \ {"bar"}

\* render(): whether the no-data text was drawn, whether a TypeError left
\* render, the divisors of the divisions it evaluated (maxCount * 1.1 and
\* maxTotal * 1.1 written ten times as large), and the segment drawn
\* emphasized.
renderBar(c) ==
    LET values == valuesOf(c.data, "value")
        maxValue == mathMax(values)
    IN  [placeholder |-> FALSE, threw |-> FALSE,
         divisors |-> {maxValue, jsNumber(Len(c.data))},
         emphasized |-> IF c.hoveredIndex \in 0..(Len(c.data) - 1)
                        THEN hovered(c) ELSE NoSegment]

renderPie(c) ==
    LET total == sumValues(valuesOf(c.data, "value"))
    IN  [placeholder |-> FALSE, threw |-> FALSE,
         divisors |-> IF c.data = <<>> THEN {} ELSE {jsNumber(total)},
         emphasized |-> IF c.hoveredIndex \in 0..(Len(c.data) - 1)
                        THEN hovered(c) ELSE NoSegment]

\* LineChart.render: drawGrid, then drawLine for each dataset; with no
\* point, points[0].x throws.  createScale divides by d1 - d0.
renderLine(c) ==
    LET points == Len(c.data.labels)
        allValues == valuesOf(c.data.datasets, "data")
        flat == UNION {Range(allValues[i]) : i \in 1..Len(allValues)}
        maxValue == MaxOf(flat \cup {1})
    IN  [placeholder |-> FALSE,
         threw |-> points = 0,
         divisors |-> {jsNumber(maxValue - 0), jsNumber((points - 1) - 0)},
         emphasized |-> NoSegment]

renderTimeline(c) ==
    LET counts == valuesOf(c.data, "count")
    IN  IF c.data = <<>>
        THEN [placeholder |-> TRUE, threw |-> FALSE, divisors |-> {},
              emphasized |-> NoSegment]
        ELSE [placeholder |-> FALSE,
              threw |-> c.hoveredIndex >= Len(c.data),
              divisors |-> {jsNumber(Len(c.data)),
                            jsNumber(MaxOf(Range(counts)) * 11)},
              emphasized |-> IF c.hoveredIndex \in 0..(Len(c.data) - 1)
                             THEN hovered(c) ELSE NoSegment]

renderApplicationStatus(c) ==
    LET totals == valuesOf(c.data, "total")
        drawnHover ==
            /\ c.hoveredIndex \in 0..(Len(c.data) - 1)
            /\ indexOfStatus(c.data[c.hoveredIndex + 1].statuses,
                             c.hoveredStatus) # 0
    IN  IF c.data = <<>>
        THEN [placeholder |-> TRUE, threw |-> FALSE, divisors |-> {},
              emphasized |-> NoSegment]
        ELSE [placeholder |-> FALSE, threw |-> FALSE,
              divisors |-> {jsNumber(Len(c.data)),
                            jsNumber(MaxOf(Range(totals)) * 11)},
              emphasized |-> IF drawnHover THEN hovered(c) ELSE NoSegment]

\* SparklineChart.render returns at once for no data; range is
\* max - min || 1.
renderSparkline(c) ==
    LET range == MaxOf(Range(c.data)) - MinOf(Range(c.data))
    IN  IF c.data = <<>>
        THEN [placeholder |-> FALSE, threw |-> FALSE, divisors |-> {},
              emphasized |-> NoSegment]
        ELSE [placeholder |-> FALSE, threw |-> FALSE,
              divisors |-> {jsNumber(Len(c.data) - 1),
                            jsNumber(IF range = 0 THEN 1 ELSE range)},
              emphasized |-> NoSegment]

renderChart(c) ==
    CASE c.kind = "bar" -> renderBar(c)
      [] c.kind = "pie" -> renderPie(c)
      [] c.kind = "line" -> renderLine(c)
      [] c.kind = "timeline" -> renderTimeline(c)
      [] c.kind = "applicationStatus" -> renderApplicationStatus(c)
      [] c.kind = "sparkline" -> renderSparkline(c)

\* bar-chart.js setupEventListeners, the mousemove callback: the last bar
\* whose span holds x, for a pointer at or below the top of the plot.
hitBar(c, p) ==
    LET n == Len(c.data)
        W == chartWidth(BarBox)
        rel == p.x - BarBox.padding.left
        hits == {i \in 0..(n - 1) :
                    /\ rel * 5 * n >= (5 * i + 1) * W
                    /\ rel * 5 * n <= (5 * i + 4) * W
                    /\ p.y >= BarBox.padding.top}
    IN  IF hits = {} THEN NoSegment ELSE <<MaxOf(hits), NULL>>

\* pie-chart.js getSliceAtPoint, for a pointer given by its ring (inside
\* the hole, on the ring, outside) and its direction from the centre, in
\* PointerTurns-ths of a turn clockwise from the top.
PointerTurns == 12

hitPie(c, p) ==
    LET values == valuesOf(c.data, "value")
        total == sumValues(values)
        before(i) == sumValues(SubSeq(values, 1, i))
        hits == {i \in 0..(Len(values) - 1) :
                    /\ total # 0
                    /\ p.turn * total >= before(i) * PointerTurns
                    /\ p.turn * total < before(i + 1) * PointerTurns}
    IN  IF p.ring # "ring" \/ hits = {} THEN NoSegment
        ELSE <<MinOf(hits), NULL>>

\* timeline-chart.js handleMouseMove: the bucket of x alone.
hitTimeline(c, p) ==
    LET n == Len(c.data)
        index == IF n = 0 THEN 0
                 ELSE ((p.x - TimelineBox.padding.left) * n)
                         \div chartWidth(TimelineBox)
    IN  IF index >= 0 /\ index < n THEN <<index, NULL>> ELSE NoSegment

\* The hit test without the test of the row's height.
hitApplicationStatus_wholeSlot(c, p) ==
    LET n == Len(c.data)
        H == chartHeight(StatusBox)
        W == chartWidth(StatusBox)
        relY == p.y - StatusBox.padding.top
        relX == p.x - StatusBox.padding.left
        barIndex == IF n = 0 THEN 0 ELSE (relY * n) \div H
        inRows == barIndex >= 0 /\ barIndex < n
        item == c.data[barIndex + 1]
        maxTotal == MaxOf(Range(valuesOf(c.data, "total")))
        counts == valuesOf(item.statuses, "count")
        before(j) == sumValues(SubSeq(counts, 1, j - 1))
        hits == {j \in 1..Len(counts) :
                    /\ relX * 11 * maxTotal >= 10 * W * before(j)
                    /\ relX * 11 * maxTotal <= 10 * W * before(j + 1)}
    IN  IF inRows /\ hits # {}
        THEN <<barIndex, item.statuses[MinOf(hits)].status>>
        ELSE NoSegment

\* application-status-chart.js handleMouseMove: the row of y, then the
\* first segment of that row whose span holds x.  barSpacing is 0.15: a
\* row is drawn 17/20 of its slot high, 3/40 of the slot below its top.
hitApplicationStatus(c, p) ==
    LET n == Len(c.data)
        H == chartHeight(StatusBox)
        W == chartWidth(StatusBox)
        relY == p.y - StatusBox.padding.top
        relX == p.x - StatusBox.padding.left
        barIndex == IF n = 0 THEN 0 ELSE (relY * n) \div H
        inRows == barIndex >= 0 /\ barIndex < n
        item == c.data[barIndex + 1]
        inBar == /\ relY * 40 * n >= (40 * barIndex + 3) * H
                 /\ relY * 40 * n <= (40 * barIndex + 37) * H
        maxTotal == MaxOf(Range(valuesOf(c.data, "total")))
        counts == valuesOf(item.statuses, "count")
        before(j) == sumValues(SubSeq(counts, 1, j - 1))
        hits == {j \in 1..Len(counts) :
                    /\ relX * 11 * maxTotal >= 10 * W * before(j)
                    /\ relX * 11 * maxTotal <= 10 * W * before(j + 1)}
    IN  IF inRows /\ inBar /\ hits # {}
        THEN <<barIndex, item.statuses[MinOf(hits)].status>>
        ELSE NoSegment

hitTest(c, p) ==
    CASE c.kind = "bar" -> hitBar(c, p)
      [] c.kind = "pie" -> hitPie(c, p)
      [] c.kind = "timeline" -> hitTimeline(c, p)
      [] c.kind = "applicationStatus" -> hitApplicationStatus(c, p)

\* The pointer positions of the model along one side of a plot: before
\* it, a number of equal steps across it, and beyond it.
PointerSteps == 10

acrossPlot(from, length, steps) ==
    {from - 10, from + length + 10}
    \cup {from + (length * k) \div steps : k \in 0..steps}

PointerPositions(kind) ==
    CASE kind = "bar" ->
            [x : acrossPlot(BarBox.padding.left, chartWidth(BarBox),
                            PointerSteps),
             y : {BarBox.padding.top - 10, BarBox.padding.top + 10}]
      [] kind = "pie" -> [ring : {"hole", "ring", "outside"},
                          turn : 0..(PointerTurns - 1)]
      [] kind = "timeline" ->
            [x : acrossPlot(TimelineBox.padding.left,
                            chartWidth(TimelineBox), PointerSteps),
             y : {TimelineBox.padding.top + 10}]
      [] kind = "applicationStatus" ->
            [x : acrossPlot(StatusBox.padding.left, chartWidth(StatusBox),
                            PointerSteps \div 2),
             y : acrossPlot(StatusBox.padding.top, chartHeight(StatusBox),
                            PointerSteps)]
      [] OTHER -> {}

\* The data files of this part: the rows of Universe in one order, any of
\* them left out.
UniverseOrder ==
    <<Row("5", "Active", "2024-01-10", "Alice", "Portal"),
      Row("3", "Fixed", "2024-02-15", "Bob", "Portal"),
      Row("1", "Active", "bad-date", "Alice", "Billing"),
      Row("5", "active", "2023-12-05", "Bob", "Billing")>>

ChartFiles ==
    {SelectSeq(UniverseOrder, LAMBDA row : row \in kept) :
        kept \in SUBSET Universe}

\* The chart of one kind on the dashboard of a loaded file, drawn.
InitChart ==
    /\ pc = "drawn"
    /\ rawData \in ChartFiles
    /\ now = Today
    /\ \E kind \in ChartKinds :
          theChart = newChartInstance(kind, rawData, now)
    /\ canvas = renderChart(theChart)
    /\ pointer = NULL
    /\ originalRawData = [defined |-> FALSE, value |-> <<>>]
    /\ filterManager = NULL
    /\ metricsCalculator = NULL
    /\ renderedMetrics = NULL
    /\ renderedDeltas = NULL
    /\ renderLog = <<>>
    /\ shownRows = NULL
    /\ pageIdle
    /\ options = NULL
    /\ timeRangeFilter = NULL
    /\ deliveredRange = NULL
    /\ document = {}
    /\ objects = {}
    /\ drawn = {}
    /\ console = {}
    /\ mainContent = <<>>
    /\ csvInput = NULL
    /\ text = <<>>
    /\ lines = <<>>
    /\ data = <<>>
    /\ fnInput = NULL
    /\ fnResult = NULL

\* The fields after a pointer event resolved to the segment `hit`; the
\* chart is drawn again when the hovered segment changes.
hoverOn(c, hit) == [c EXCEPT !.hoveredIndex = hit[1], !.hoveredStatus = hit[2]]

\* A mousemove over the canvas of the chart.
MouseMove(p) ==
    /\ pc \in {"drawn", "moved", "left"}
    /\ theChart.kind \in HitTested
    /\ p \in PointerPositions(theChart.kind)
    /\ pointer' = p
    /\ pc' = "moved"
    /\ IF listens(theChart.kind)
          /\ (IF hitTest(theChart, p) # NoSegment
              THEN hovered(theChart) # hitTest(theChart, p)
              ELSE theChart.hoveredIndex # -1)
       THEN /\ theChart' = hoverOn(theChart, hitTest(theChart, p))
            /\ canvas' = renderChart(theChart')
       ELSE UNCHANGED <<theChart, canvas>>
    /\ UNCHANGED <<csvVars, appVars, fnVars, rangeVars, initVars, pageVars>>

\* A mouseleave of the canvas.
MouseLeave ==
    /\ pc \in {"drawn", "moved", "left"}
    /\ theChart.kind \in HitTested
    /\ pc' = "left"
    /\ IF listens(theChart.kind) /\ theChart.hoveredIndex # -1
       THEN /\ theChart' = hoverOn(theChart, NoSegment)
            /\ canvas' = renderChart(theChart')
       ELSE UNCHANGED <<theChart, canvas>>
    /\ UNCHANGED pointer
    /\ UNCHANGED <<csvVars, appVars, fnVars, rangeVars, initVars, pageVars>>

\* The chart is given the dataset of other rows and drawn again: app.js
\* updateCharts assigns the fields of the bar, pie and line charts and calls
\* render(); the timeline, application status and sparkline charts have an
\* update method that does the same.  The hover fields are left as they
\* are.
Update(rows) ==
    /\ pc \in {"drawn", "moved", "left", "updated"}
    /\ rows \in ChartFiles
    /\ rows # rawData
    /\ rawData' = rows
    /\ theChart' = [theChart EXCEPT
                       !.data = datasetOf(theChart.kind, rows, now)]
    /\ canvas' = renderChart(theChart')
    /\ pointer' = NULL
    /\ pc' = "updated"
    /\ UNCHANGED <<originalRawData, filterManager, metricsCalculator,
                   renderedMetrics, renderedDeltas, now, renderLog, options,
                   shownRows>>
    /\ UNCHANGED <<csvVars, fnVars, rangeVars, initVars, pageVars>>

NextChart ==
    \/ \E kind \in HitTested : \E p \in PointerPositions(kind) : MouseMove(p)
    \/ MouseLeave
    \/ \E rows \in ChartFiles : Update(rows)

SpecChart == InitChart /\ [][NextChart]_vars

\* C21: on every chart with a pointer hit test, after a pointer move that
\* resolves to a segment the chart hovers that segment and its last drawing
\* emphasizes it, and after a pointer leave no segment is hovered or drawn
\* emphasized.
C21_HoverFollowsPointer ==
    theChart.kind \in HitTested =>
        /\ (pc = "moved" /\ hitTest(theChart, pointer) # NoSegment) =>
              /\ hovered(theChart) = hitTest(theChart, pointer)
              /\ canvas.emphasized = hitTest(theChart, pointer)
        /\ pc = "left" =>
              /\ hovered(theChart) = NoSegment
              /\ canvas.emphasized = NoSegment

\* The number of points of the dataset a chart holds.
datasetLength(c) ==
    IF c.kind = "line" THEN Len(c.data.labels) ELSE Len(c.data)

\* C22: a chart whose dataset has no point is drawn as the no-data text,
\* without a TypeError and without having evaluated any division.
C22_EmptyDatasetDrawsPlaceholder ==
    datasetLength(theChart) = 0 =>
        /\ canvas.placeholder
        /\ ~canvas.threw
        /\ canvas.divisors = {}


(***************************************************************************)
(* The dashboard with the rows each group of charts was last drawn from:   *)
(* the bar, pie, line and radial charts of updateCharts ("charts"), the    *)
(* timeline chart, the application status chart, the four sparklines.      *)
(***************************************************************************)
\* init(), lines 54-88: initializeCharts is given the normalized rows, also
\* for the timeline chart it draws; the application status chart and the
\* sparklines are given rawData.
InitShown ==
    /\ pc = "init"
    /\ rawData \in ChartFiles
    /\ originalRawData = [defined |-> FALSE, value |-> <<>>]
    /\ filterManager = newFilterManager(normalizeData(rawData))
    /\ metricsCalculator = [data |-> normalizeData(rawData)]
    /\ renderedMetrics = metricValues(metricsCalculator)
    /\ now = Today
    /\ renderedDeltas = metricDeltas(metricsCalculator, now)
    /\ renderLog = <<"metrics", "table", "charts", "timeline",
                     "applicationStatus", "sparklines">>
    /\ options = [key \in FilterKeys |->
                    getUniqueValues(filterManager, columnOf(key))]
    /\ pageIdle
    /\ shownRows = [charts |-> normalizeData(rawData),
                    timeline |-> normalizeData(rawData),
                    applicationStatus |-> rawData,
                    sparklines |-> rawData]
    /\ csvInput = NULL
    /\ text = <<>>
    /\ lines = <<>>
    /\ data = <<>>
    /\ fnInput = NULL
    /\ fnResult = NULL
    /\ timeRangeFilter = NULL
    /\ deliveredRange = NULL
    /\ document = {}
    /\ objects = {}
    /\ drawn = {}
    /\ console = {}
    /\ mainContent = <<>>
    /\ theChart = NULL
    /\ canvas = NULL
    /\ pointer = NULL

\* updateDashboard(): updateCharts(filteredData), then
\* updateSparklines(filteredData), which returns at once for no rows.
shownAfterUpdate(filteredData) ==
    [shownRows EXCEPT
        !.charts = filteredData,
        !.sparklines = IF filteredData = <<>> THEN @ ELSE filteredData]

\* handleTimeRangeChange: the timeline chart, the application status chart
\* and the sparklines are given filteredByTime, updateCharts finalData.
shownAfterTimeRange(range) ==
    LET original == IF originalRawData.defined
                    THEN originalRawData.value ELSE rawData
        filteredByTime == filterByTime(original, range)
        finalData == getData(setData(filterManager, filteredByTime))
    IN  [charts |-> finalData,
         timeline |-> filteredByTime,
         applicationStatus |-> filteredByTime,
         sparklines |-> IF filteredByTime = <<>> THEN shownRows.sparklines
                        ELSE filteredByTime]

ShownFilterChange(key, value) ==
    /\ filterChange(key, value)
    /\ shownRows' = shownAfterUpdate(getData(filterManager'))

ShownResetClick ==
    /\ resetClick
    /\ shownRows' = shownAfterUpdate(getData(filterManager'))

ShownTimeRangeChange(range) ==
    /\ rangeChange(range)
    /\ shownRows' = shownAfterTimeRange(range)

NextShown ==
    \/ \E key \in FilterKeys :
          \E value \in options[key] \cup {NULL} : ShownFilterChange(key, value)
    \/ ShownResetClick
    \/ \E range \in DeliveredRanges(rawData) : ShownTimeRangeChange(range)

SpecShown == InitShown /\ [][NextShown]_vars

\* The datasets the charts of one group compute from the rows they are
\* given.
shownDataset(name, rows) ==
    CASE name = "charts" ->
            <<datasetOf("bar", rows, now), datasetOf("line", rows, now),
              processOwnershipData(rows)>>
      [] name = "timeline" -> datasetOf("timeline", rows, now)
      [] name = "applicationStatus" -> datasetOf("applicationStatus", rows, now)
      [] name = "sparklines" -> generateSparklineData(rows, now)

\* C23: after a filter change, a reset or a time-range change every chart
\* shows the dataset of the filtered subset the metrics and the table show.
C23_ChartsShowFilteredSubset ==
    pc \in {"filter", "reset", "time"} =>
        \A name \in DOMAIN shownRows :
            shownDataset(name, shownRows[name])
              = shownDataset(name, metricsCalculator.data)

\* A record of normalizeData: it carries the derived fields, with the
\* values its source fields give.
isNormalized(row) ==
    /\ DerivedKeys \subseteq DOMAIN row
    /\ derivedOf(row) = derivedOf(normalizeRow(row))

\* C24: in every state of the dashboard each record of the filter engine's
\* base set and of its filtered subset is a normalized record.
C24_EngineHoldsNormalizedRecords ==
    /\ \A k \in 1..Len(filterManager.originalData) :
          isNormalized(filterManager.originalData[k])
    /\ \A k \in 1..Len(getData(filterManager)) :
          isNormalized(getData(filterManager)[k])

absent(value) == value \in {jsNull, jsUndefined}

\* C25: in every record normalizeData returns the derived month is absent
\* or an integer from 1 to 12 and the derived year is absent or an integer;
\* for a first-detected date that is missing or cannot be parsed both are
\* absent.
C25_YearAndMonthAbsentOrInteger ==
    Returned("normalize") =>
        \A k \in 1..Len(fnResult.returned) :
            LET row == fnResult.returned[k]
                date == get(fnInput.rows[k], "First Detected")
            IN  /\ \/ absent(get(row, "month"))
                   \/ get(row, "month") \in {jsNumber(n) : n \in 1..12}
                /\ \/ absent(get(row, "year"))
                   \/ get(row, "year").type = "number"
                /\ (~truthy(date) \/ isInvalid(newDate(date))) =>
                      absent(get(row, "month")) /\ absent(get(row, "year"))

\* sub is seq with some of its elements left out, the others in their
\* order.
RECURSIVE isSubsequence(_, _)
isSubsequence(sub, seq) ==
    IF sub = <<>> THEN TRUE
    ELSE IF seq = <<>> THEN FALSE
    ELSE IF Head(sub) = Head(seq) THEN isSubsequence(Tail(sub), Tail(seq))
    ELSE isSubsequence(sub, Tail(seq))

\* C26: a filter change and a reset leave the filter engine's base set as
\* it was, a base-set replacement makes it the rows it is given, which are
\* rows of the load with every field as loaded; after each of them the
\* filtered subset is the base set with some records left out, the others
\* in their order and unchanged.
C26_FilterEngineLeavesBaseSet ==
    [][/\ pc' \in {"filter", "reset"} =>
             filterManager'.originalData = filterManager.originalData
       /\ pc' = "time" => isSubsequence(filterManager'.originalData, rawData)
       /\ isSubsequence(getData(filterManager'),
                        filterManager'.originalData)]_vars

C26_Witness ==
    /\ pc = "filter"
    /\ originalRawData.defined
    /\ Len(filterManager.originalData) = 3
    /\ Len(getData(filterManager)) = 2
    /\ getData(filterManager)
         = <<filterManager.originalData[1], filterManager.originalData[3]>>

\* The options populateFilters gives the three selects, from the filter
\* engine init() creates.
loadedOptions(rows) ==
    [key \in FilterKeys |->
        getUniqueValues(newFilterManager(normalizeData(rows)), columnOf(key))]

\* C27: a time-range change leaves the options of the three filter selects
\* and the selected values as they were; the options are those of the
\* whole load, whatever the base set has become.
C27_TimeRangeKeepsFilters ==
    /\ [](options = loadedOptions(rawData))
    /\ [][pc' = "time" =>
             /\ options' = options
             /\ filterManager'.filters = filterManager.filters]_vars

C27_Witness ==
    /\ pc = "time"
    /\ filterManager.filters.owner = "Alice"
    /\ filterManager.filters.status = NULL
    /\ getData(filterManager) = <<>>
    /\ "Alice" \in options.owner
    /\ "Alice" \notin getUniqueValues(filterManager, "LT Owner")
    /\ filterManager.originalData # <<>>

\* C28: no drawing of a chart divides by the width of an empty domain:
\* none of the divisors of its scales (the largest value, the number of
\* points less one, the total) is zero.
C28_NoScaleOverEmptyDomain == jsNumber(0) \notin canvas.divisors

\* ApplicationStatusChart.render, lines 145-179: the point p lies in the
\* rectangle fillRect draws for the segment of `status` in row `index` (from
\* 0): currentX up to currentX + count * scale across, and from
\* top + index * barHeight + barPadding / 2 down barInnerHeight, with
\* scale = chartWidth / (maxTotal * 1.1) and barSpacing 0.15.  The edges
\* belong to the rectangle.
inDrawnSegment(c, p, index, status) ==
    LET n == Len(c.data)
        H == chartHeight(StatusBox)
        W == chartWidth(StatusBox)
        item == c.data[index + 1]
        j == indexOfStatus(item.statuses, status)
        counts == valuesOf(item.statuses, "count")
        maxTotal == MaxOf(Range(valuesOf(c.data, "total")))
        currentX == sumValues(SubSeq(counts, 1, j - 1))
        relX == p.x - StatusBox.padding.left
        relY == p.y - StatusBox.padding.top
    IN  /\ index \in 0..(n - 1)
        /\ j # 0
        /\ 11 * maxTotal * relX >= 10 * W * currentX
        /\ 11 * maxTotal * relX <= 10 * W * (currentX + counts[j])
        /\ 40 * n * relY >= (40 * index + 3) * H
        /\ 40 * n * relY <= (40 * index + 3 + 34) * H

\* The segments render draws: each status of each row.
drawnSegmentsOf(c) ==
    UNION {{<<i, c.data[i + 1].statuses[j].status>> :
               j \in 1..Len(c.data[i + 1].statuses)} :
           i \in 0..(Len(c.data) - 1)}

\* C29: after a pointer move over the application status chart, the
\* segment hovered, if any, is one whose drawn rectangle holds the pointer,
\* and its row is the bucket of the pointer's y among the rows; with the
\* pointer in no drawn rectangle (between two rows, right of a row's last
\* segment, outside the plot) no segment is hovered.
C29_HoveredSegmentHoldsPointer ==
    (theChart.kind = "applicationStatus" /\ pc = "moved") =>
        LET n == Len(theChart.data)
            relY == pointer.y - StatusBox.padding.top
            holding == {seg \in drawnSegmentsOf(theChart) :
                          inDrawnSegment(theChart, pointer, seg[1], seg[2])}
        IN  /\ hovered(theChart) # NoSegment =>
                  /\ hovered(theChart) \in holding
                  /\ theChart.hoveredIndex
                       = (relY * n) \div chartHeight(StatusBox)
            /\ holding = {} => hovered(theChart) = NoSegment

C29_Witness ==
    /\ theChart.kind = "applicationStatus"
    /\ pc = "moved"
    /\ Len(theChart.data) = 2
    /\ hovered(theChart) = <<1, "active">>
    /\ indexOfStatus(theChart.data[2].statuses, "active") = 2

\* C30: the series getSparklineData returns for a metric has exactly the
\* number of points asked for, whatever the rows, and its last point is
\* the count of the most recent day.
C30_SparklineWindowFixedLength ==
    Returned("sparkline") =>
        LET rows == fnInput.rows
            days == {dayNumber(firstDetectedOf(rows[k])) :
                        k \in {i \in 1..Len(rows) :
                                 ~isInvalid(firstDetectedOf(rows[i]))}}
        IN  /\ Len(fnResult) = fnInput.points
            /\ (fnInput.metric = "total" /\ days # {}) =>
                  fnResult[Len(fnResult)]
                    = Cardinality({k \in 1..Len(rows) :
                         /\ ~isInvalid(firstDetectedOf(rows[k]))
                         /\ dayNumber(firstDetectedOf(rows[k]))
                              = MaxOf(days)})


(***************************************************************************)
(* The theme switch and the animation frames.  ThemeManager.toggle sets    *)
(* the data-theme attribute in a requestAnimationFrame callback;           *)
(* rerenderAllCharts draws some charts at once and the others in callbacks *)
(* of their own; LineChart.render draws its entrance animation in          *)
(* callbacks that request one another.  The browser runs the callbacks     *)
(* requested before a frame in the order of the requests, and those        *)
(* requested while it does so at the next frame.  A set of resolved colors *)
(* is written as the theme whose colors they are.                          *)
(***************************************************************************)
Themes == {"light", "dark"}

\* animate(callback, duration = 1000); LineChart.render passes 1000.
Duration == 1000

\* The times between one frame and the next, in milliseconds.
FrameSteps == {400, 700}

\* The render() calls of the line chart in one run.
MaxAnimations == 3

\* The files the charts are updated with.
FrameFiles ==
    {<<>>, <<UniverseOrder[1]>>, <<UniverseOrder[1], UniverseOrder[2]>>}

\* getColors() of the canvas charts, getColor() of SparklineChart and
\* getChartColors(): the colors of the theme the document has when called.
getChartColors(attribute) == attribute

\* ThemeManager.toggle: the new value of this.theme.
toggle(theme) == IF theme = "light" THEN "dark" ELSE "light"

\* requestAnimationFrame(callback)
requestAnimationFrame(requests, callback) == Append(requests, callback)

\* The canvas of the line chart after clear() and drawGrid().
gridOnly(chart, animation) ==
    [labels |-> chart.labels, datasets |-> chart.datasets,
     lines |-> FALSE, progress |-> 0, legend |-> FALSE,
     animation |-> animation]

\* drawLine reads points[0] for the gradient fill: a TypeError when the
\* dataset has no point.
drawLineThrows(dataset) == dataset.data = <<>>

\* frame(time) of animate() with the callback of LineChart.render.
\* progress is written in milliseconds of the duration; eased is 1 exactly
\* when progress is 1.  The callback throws at the first dataset without
\* points, before frame requests itself again.
lineFrame(page, request, time) ==
    LET elapsed == time - request.start
        progress == IF elapsed < Duration THEN elapsed ELSE Duration
        chart == page.lineChart
        threw == \E i \in DOMAIN chart.datasets :
                    drawLineThrows(chart.datasets[i])
        drew == [gridOnly(chart, request.animation) EXCEPT
                    !.lines = ~threw,
                    !.progress = IF threw THEN 0 ELSE progress,
                    !.legend = ~threw /\ progress = Duration]
    IN  [page EXCEPT
            !.painted["charts.lineChart"] = getChartColors(page.dataTheme),
            !.lineSurface = drew,
            !.frameRequests =
                IF ~threw /\ progress < Duration
                THEN requestAnimationFrame(page.frameRequests, request)
                ELSE page.frameRequests]

\* One callback of the frame at `time`.
runCallback(page, request, time) ==
    CASE request.callback = "applyTheme" ->
            [page EXCEPT !.dataTheme = page.themeManager.theme]
      [] request.callback = "render" ->
            [page EXCEPT !.painted[request.chart] =
                             getChartColors(page.dataTheme)]
      [] request.callback = "frame" -> lineFrame(page, request, time)

RECURSIVE runCallbacks(_, _, _)
runCallbacks(page, requests, time) ==
    IF requests = <<>> THEN page
    ELSE runCallbacks(runCallback(page, Head(requests), time),
                      Tail(requests), time)

\* The animate() calls whose frame is requested.
inFlight(requests) ==
    {requests[i].animation :
        i \in {j \in DOMAIN requests : requests[j].callback = "frame"}}

\* LineChart.render(): clear, drawGrid, animate.  The chart's record also
\* keeps the number of animate() calls so far, which names each call, and
\* the calls that were in flight at a later render().
renderLineChart(page, time) ==
    LET animation == page.lineChart.animations + 1
    IN  [page EXCEPT
            !.painted["charts.lineChart"] = getChartColors(page.dataTheme),
            !.lineSurface = gridOnly(page.lineChart, animation),
            !.lineChart.animations = animation,
            !.lineChart.superseded = @ \cup inFlight(page.frameRequests),
            !.frameRequests =
                requestAnimationFrame(page.frameRequests,
                    [callback |-> "frame", start |-> time,
                     animation |-> animation])]

\* A render() that draws at once with the colors resolved at the call.
renderNow(page, chart) ==
    [page EXCEPT !.painted[chart] = getChartColors(page.dataTheme)]

RECURSIVE requestRenders(_, _)
requestRenders(page, charts) ==
    IF charts = <<>> THEN page
    ELSE requestRenders(
             [page EXCEPT !.frameRequests =
                 requestAnimationFrame(page.frameRequests,
                     [callback |-> "render", chart |-> Head(charts)])],
             Tail(charts))

\* rerenderAllCharts (app.js 570-618).
rerenderAllCharts(page, time) ==
    LET canvasCharts == requestRenders(page,
            <<"timelineChart", "applicationStatusChart", "charts.pieChart",
              "charts.barChart">>)
        others == renderNow(renderLineChart(canvasCharts, time),
                            "charts.radialChart")
        sparks == requestRenders(others,
            <<"sparklines.total", "sparklines.active", "sparklines.fixed",
              "sparklines.critical">>)
    IN  renderNow(sparks, "charts.radialChart")

\* The click listener of the theme button (app.js 277-282):
\* themeManager.toggle(), then rerenderAllCharts().
themeToggleClick(page, time) ==
    LET toggled == [page EXCEPT
            !.themeManager.theme = toggle(page.themeManager.theme),
            !.frameRequests =
                requestAnimationFrame(page.frameRequests,
                                      [callback |-> "applyTheme"])]
    IN  rerenderAllCharts(toggled, time)

\* updateCharts(data) (app.js 535-565).
updateCharts(page, rows, time) ==
    LET trendsData == getMonthlyTrends(rows, DefaultMonths)
        bars == renderNow(renderNow(page, "charts.barChart"),
                          "charts.pieChart")
        line == renderLineChart(
                    [bars EXCEPT !.lineChart.labels = trendsData.labels,
                                 !.lineChart.datasets = trendsData.datasets],
                    time)
    IN  renderNow(line, "charts.radialChart")

thePage ==
    [themeManager |-> themeManager, dataTheme |-> dataTheme,
     frameRequests |-> frameRequests, painted |-> painted,
     lineChart |-> lineChart, lineSurface |-> lineSurface]

becomes(page) ==
    /\ themeManager' = page.themeManager
    /\ dataTheme' = page.dataTheme
    /\ frameRequests' = page.frameRequests
    /\ painted' = page.painted
    /\ lineChart' = page.lineChart
    /\ lineSurface' = page.lineSurface

\* The dashboard right after init() drew the charts of a loaded file: the
\* entrance animation of the line chart has been requested.
InitFrames ==
    /\ pc = "drawn"
    /\ rawData \in FrameFiles
    /\ now = Today
    /\ themeManager \in [theme : Themes]
    /\ dataTheme = themeManager.theme
    /\ clock = 0
    /\ painted = [chart \in ChartNames |-> getChartColors(dataTheme)]
    /\ LET trendsData == getMonthlyTrends(normalizeData(rawData),
                                          DefaultMonths)
       IN  lineChart = [labels |-> trendsData.labels,
                        datasets |-> trendsData.datasets, animations |-> 1,
                        superseded |-> {}]
    /\ lineSurface = gridOnly(lineChart, 1)
    /\ tableIdle
    /\ debounceIdle
    /\ frameRequests = <<[callback |-> "frame", start |-> 0,
                          animation |-> 1]>>
    /\ theChart = NULL
    /\ canvas = NULL
    /\ pointer = NULL
    /\ shownRows = NULL
    /\ originalRawData = [defined |-> FALSE, value |-> <<>>]
    /\ filterManager = NULL
    /\ metricsCalculator = NULL
    /\ renderedMetrics = NULL
    /\ renderedDeltas = NULL
    /\ renderLog = <<>>
    /\ options = NULL
    /\ timeRangeFilter = NULL
    /\ deliveredRange = NULL
    /\ document = ChartSurfaces
    /\ objects = {}
    /\ drawn = {}
    /\ console = {}
    /\ mainContent = <<"dashboard">>
    /\ csvInput = NULL
    /\ text = <<>>
    /\ lines = <<>>
    /\ data = <<>>
    /\ fnInput = NULL
    /\ fnResult = NULL

framesFrame ==
    UNCHANGED <<csvVars, appVars, fnVars, rangeVars, initVars, chartVars,
                tableVars, debounceVars>>

\* A click on the theme button.
ThemeToggleClick ==
    /\ lineChart.animations < MaxAnimations
    /\ becomes(themeToggleClick(thePage, clock))
    /\ pc' = "toggled"
    /\ UNCHANGED clock
    /\ framesFrame

\* updateDashboard's call of updateCharts with the filtered rows.
UpdateCharts(rows) ==
    /\ lineChart.animations < MaxAnimations
    /\ becomes(updateCharts(thePage, normalizeData(rows), clock))
    /\ pc' = "updated"
    /\ UNCHANGED clock
    /\ framesFrame

\* The browser runs the callbacks requested before this frame.
AnimationFrame(step) ==
    /\ frameRequests # <<>>
    /\ clock' = clock + step
    /\ becomes(runCallbacks([thePage EXCEPT !.frameRequests = <<>>],
                            frameRequests, clock'))
    /\ pc' = "frame"
    /\ framesFrame

NextFrames ==
    \/ ThemeToggleClick
    \/ \E rows \in FrameFiles : UpdateCharts(rows)
    \/ \E step \in FrameSteps : AnimationFrame(step)

SpecFrames == InitFrames /\ [][NextFrames]_vars

\* C31: when every requested callback has run, the last draw of every
\* chart took its colors while the document had the theme now chosen.
C31_LastDrawInNewTheme ==
    frameRequests = <<>> =>
        \A chart \in ChartNames : painted[chart] = themeManager.theme


\* The canvas of the line chart drawn in full: every line at progress 1,
\* the legend and the axis labels.
fullyDrawn(chart) ==
    [gridOnly(chart, chart.animations) EXCEPT
        !.lines = TRUE, !.progress = Duration, !.legend = TRUE]

\* C32: after a render() that found an earlier animation in flight, once no
\* animation frame is requested any more the canvas shows the chart's
\* present labels and datasets in full, with legend and axis labels, and
\* the frame that left it there is one of the latest animation.
C32_LaterRenderSupersedes ==
    (lineChart.superseded # {} /\ inFlight(frameRequests) = {}) =>
        lineSurface = fullyDrawn(lineChart)


\* C33: the range the control holds, as getRange() returns it and as its
\* label shows it, is the range the range-change callback was given last
\* (before any call: every field null, the whole load being shown).
C33_HeldRangeWasApplied ==
    /\ getRange(timeRangeFilter) = deliveredRange.value
    /\ timeRangeFilter.display = updateDisplayText(deliveredRange.value)

\* A range whose to-date is before its from-date whatever month stands for
\* a month left unselected: the to-year is the earlier year, or the years
\* agree and the to-month is the earlier month.
toPrecedesFrom(range) ==
    /\ range.fromYear # 0
    /\ range.toYear # 0
    /\ \/ range.toYear < range.fromYear
       \/ /\ range.toYear = range.fromYear
          /\ range.fromMonth # 0
          /\ range.toMonth # 0
          /\ range.toMonth < range.fromMonth

\* C34: the range-change callback is never given a range whose to-date
\* precedes its from-date, also when a month is left unselected.
C34_NoInvertedRangeDelivered ==
    deliveredRange.defined => ~toPrecedesFrom(deliveredRange.value)


\* C35: the timeline and the application status chart hover no segment or a
\* segment of the dataset they hold, also after update() replaced the
\* dataset; render() did not read a bucket the dataset lacks, and the
\* tooltip it drew is that of a segment it drew.
C35_HoverWithinDataset ==
    theChart.kind \in {"timeline", "applicationStatus"} =>
        /\ theChart.hoveredIndex \in -1..(datasetLength(theChart) - 1)
        /\ ~canvas.threw
        /\ theChart.hoveredIndex >= 0 => canvas.emphasized = hovered(theChart)


(***************************************************************************)
(* table.js: DataTable, its pagination and its expandable rows.  Row       *)
(* indexes count from 0 over the whole data; the expand buttons of the     *)
(* page are those render() wrote for the rows of the current page, and a   *)
(* click on one calls toggleRowExpansion with its index.                   *)
(***************************************************************************)
\* new DataTable('data-table', 10): app.js line 63.
RowsPerPage == 10

\* The most rows a file of this part has.
MaxTableRows == 21

\* Files of no row, one row, a full page, a page and a row, and the most.
TableFiles ==
    {Repeat(UniverseOrder[1], n) :
        n \in {0, 1, RowsPerPage, RowsPerPage + 1, MaxTableRows}}

\* Math.ceil(num / den) for num >= 0 and den > 0.
mathCeil(num, den) == (num + den - 1) \div den

\* The fields after the constructor.
newDataTable(rowsPerPage) ==
    [rowsPerPage |-> rowsPerPage, currentPage |-> 1, data |-> <<>>,
     totalPages |-> 0, expandedRows |-> {}]

\* render(): the row indexes of pageData, each with an expand button.
pageRows(table) ==
    LET startIndex == (table.currentPage - 1) * table.rowsPerPage
        sum == startIndex + table.rowsPerPage
        endIndex == IF sum < Len(table.data) THEN sum ELSE Len(table.data)
    IN  startIndex..(endIndex - 1)

tableSetData_keepsPage(table, rows) ==
    [table EXCEPT !.data = rows,
                  !.totalPages = mathCeil(Len(rows), table.rowsPerPage),
                  !.expandedRows = {}]

tableSetData(table, rows) ==
    [table EXCEPT !.data = rows,
                  !.totalPages = mathCeil(Len(rows), table.rowsPerPage),
                  !.currentPage = 1,
                  !.expandedRows = {}]

toggleRowExpansion(table, rowIndex) ==
    [table EXCEPT !.expandedRows = IF rowIndex \in @ THEN @ \ {rowIndex}
                                   ELSE @ \cup {rowIndex}]

goToPage(table, page) ==
    IF page >= 1 /\ page <= table.totalPages
    THEN [table EXCEPT !.currentPage = page, !.expandedRows = {}]
    ELSE table

nextPage(table) ==
    IF table.currentPage < table.totalPages
    THEN [table EXCEPT !.currentPage = @ + 1, !.expandedRows = {}]
    ELSE table

prevPage(table) ==
    IF table.currentPage > 1
    THEN [table EXCEPT !.currentPage = @ - 1, !.expandedRows = {}]
    ELSE table

\* The table as its constructor leaves it; nothing is rendered yet.
InitTable ==
    /\ pc = "constructed"
    /\ dataTable = newDataTable(RowsPerPage)
    /\ tableButtons = {}
    /\ tableCall = NULL
    /\ framesIdle
    /\ debounceIdle
    /\ rawData = <<>>
    /\ now = Today
    /\ theChart = NULL
    /\ canvas = NULL
    /\ pointer = NULL
    /\ shownRows = NULL
    /\ originalRawData = [defined |-> FALSE, value |-> <<>>]
    /\ filterManager = NULL
    /\ metricsCalculator = NULL
    /\ renderedMetrics = NULL
    /\ renderedDeltas = NULL
    /\ renderLog = <<>>
    /\ options = NULL
    /\ timeRangeFilter = NULL
    /\ deliveredRange = NULL
    /\ document = {}
    /\ objects = {}
    /\ drawn = {}
    /\ console = {}
    /\ mainContent = <<>>
    /\ csvInput = NULL
    /\ text = <<>>
    /\ lines = <<>>
    /\ data = <<>>
    /\ fnInput = NULL
    /\ fnResult = NULL

tableFrame ==
    UNCHANGED <<csvVars, appVars, fnVars, rangeVars, initVars, chartVars,
                frameVars, debounceVars>>

\* A method that ends with render(): the buttons are those of the page
\* after it.  goToPage, nextPage and prevPage render only when they change
\* the page, and the page then rendered is the one already shown.
called(method, table) ==
    /\ dataTable' = table
    /\ tableButtons' = IF method \in {"setData", "toggleRowExpansion"}
                          \/ table # dataTable
                       THEN pageRows(table) ELSE tableButtons
    /\ pc' = "called"
    /\ tableFrame

SetData(rows) ==
    /\ tableCall' = [method |-> "setData", argument |-> Len(rows)]
    /\ called("setData", tableSetData(dataTable, rows))

\* A click on the expand button of a row of the page.
ToggleRowExpansion(rowIndex) ==
    /\ rowIndex \in tableButtons
    /\ tableCall' = [method |-> "toggleRowExpansion", argument |-> rowIndex]
    /\ called("toggleRowExpansion", toggleRowExpansion(dataTable, rowIndex))

GoToPage(page) ==
    /\ tableCall' = [method |-> "goToPage", argument |-> page]
    /\ called("goToPage", goToPage(dataTable, page))

NextPage ==
    /\ tableCall' = [method |-> "nextPage", argument |-> NULL]
    /\ called("nextPage", nextPage(dataTable))

PrevPage ==
    /\ tableCall' = [method |-> "prevPage", argument |-> NULL]
    /\ called("prevPage", prevPage(dataTable))

NextTable ==
    \/ \E rows \in TableFiles : SetData(rows)
    \/ \E rowIndex \in 0..(MaxTableRows - 1) : ToggleRowExpansion(rowIndex)
    \/ \E page \in 0..(mathCeil(MaxTableRows, RowsPerPage) + 1) :
          GoToPage(page)
    \/ NextPage
    \/ PrevPage

SpecTable == InitTable /\ [][NextTable]_vars

Wait == 250

\* The times the host lets pass in one step, in milliseconds.
TimeSteps == {100, 150}

\* The calls of the debounced function in one run.
MaxCalls == 3

\* The steps of time in one run, counted in the shorter step.
MaxTicks == 6

CallArgs == {"a", "b"}

clearTimeout(pending, id) == {timer \in pending : timer.id # id}

setTimeout(pending, id, args, delay, at) ==
    pending \cup {[id |-> id, due |-> at + delay, args |-> args]}

\* executedFunction(...args) without its clearTimeout(timeout).
executedFunction_noClear(closure, wait, args, at, id) ==
    [timeout |-> id,
     timers |-> setTimeout(closure.timers, id, args, wait, at)]

\* executedFunction(...args): clearTimeout(timeout), then
\* timeout = setTimeout(later, wait).
executedFunction(closure, wait, args, at, id) ==
    [timeout |-> id,
     timers |-> setTimeout(clearTimeout(closure.timers, closure.timeout),
                           id, args, wait, at)]

\* later() of the timer the host runs: clearTimeout(timeout); func(...args)
\* is the step that follows.
later(closure, timer) ==
    [closure EXCEPT
        !.timers = clearTimeout(@ \ {timer}, closure.timeout)]

\* The debounced function right after debounce(func, wait) returned it.
InitDebounce ==
    /\ pc = "debounced"
    /\ timeout = undefined
    /\ timers = {}
    /\ hostTime = 0
    /\ wrapperCalls = <<>>
    /\ funcCalls = <<>>
    /\ framesIdle
    /\ tableIdle
    /\ rawData = <<>>
    /\ now = Today
    /\ theChart = NULL
    /\ canvas = NULL
    /\ pointer = NULL
    /\ shownRows = NULL
    /\ originalRawData = [defined |-> FALSE, value |-> <<>>]
    /\ filterManager = NULL
    /\ metricsCalculator = NULL
    /\ renderedMetrics = NULL
    /\ renderedDeltas = NULL
    /\ renderLog = <<>>
    /\ options = NULL
    /\ timeRangeFilter = NULL
    /\ deliveredRange = NULL
    /\ document = {}
    /\ objects = {}
    /\ drawn = {}
    /\ console = {}
    /\ mainContent = <<>>
    /\ csvInput = NULL
    /\ text = <<>>
    /\ lines = <<>>
    /\ data = <<>>
    /\ fnInput = NULL
    /\ fnResult = NULL

debounceFrame ==
    UNCHANGED <<csvVars, appVars, fnVars, rangeVars, initVars, chartVars,
                frameVars, tableVars>>

\* A call of the debounced function.
CallDebounced(args) ==
    /\ Len(wrapperCalls) < MaxCalls
    /\ LET id == Len(wrapperCalls) + 1
           closure == executedFunction(
                          [timeout |-> timeout, timers |-> timers],
                          Wait, args, hostTime, id)
       IN  /\ timeout' = closure.timeout
           /\ timers' = closure.timers
    /\ wrapperCalls' = Append(wrapperCalls, [args |-> args, at |-> hostTime])
    /\ pc' = "called"
    /\ UNCHANGED <<hostTime, funcCalls>>
    /\ debounceFrame

\* The host runs the callback of a timer whose delay has passed.  The call
\* of func is logged with the timer's call and the number of calls of the
\* debounced function made before it.
TimerFires ==
    /\ timers # {}
    /\ \E timer \in timers :
          /\ hostTime >= timer.due
          /\ LET closure == later([timeout |-> timeout, timers |-> timers],
                                  timer)
             IN  /\ timeout' = closure.timeout
                 /\ timers' = closure.timers
          /\ funcCalls' = Append(funcCalls,
                                 [args |-> timer.args, at |-> hostTime,
                                  call |-> timer.id,
                                  after |-> Len(wrapperCalls)])
    /\ pc' = "invoked"
    /\ UNCHANGED <<hostTime, wrapperCalls>>
    /\ debounceFrame

\* Time passes.
TimePasses(step) ==
    /\ hostTime < MaxTicks * 100
    /\ hostTime' = hostTime + step
    /\ pc' = "waited"
    /\ UNCHANGED <<timeout, timers, wrapperCalls, funcCalls>>
    /\ debounceFrame

NextDebounce ==
    \/ \E args \in CallArgs : CallDebounced(args)
    \/ TimerFires
    \/ \E step \in TimeSteps : TimePasses(step)

SpecDebounce == InitDebounce /\ [][NextDebounce]_vars

\* The gap between call i and the call after it.
gapAfter(i) == wrapperCalls[i + 1].at - wrapperCalls[i].at

\* The invocations of func by the timer of call i.
invocationsOf(i) == {j \in DOMAIN funcCalls : funcCalls[j].call = i}

\* func is not invoked between two calls less than wait apart, and an
\* invocation comes no sooner than wait after the call it belongs to, with
\* the arguments of that call.
invokedAfterWait ==
    \A j \in DOMAIN funcCalls :
        LET i == funcCalls[j].call
            k == funcCalls[j].after
        IN  /\ ~(k >= 1 /\ k < Len(wrapperCalls) /\ gapAfter(k) < Wait)
            /\ funcCalls[j].at >= wrapperCalls[i].at + Wait
            /\ funcCalls[j].args = wrapperCalls[i].args

\* C37 as claimed: func is not invoked while calls arrive less than wait
\* apart, and every burst of calls (calls less than wait apart, the next
\* call wait or more after its last) has exactly one invocation, wait after
\* its last call and with the arguments of that call.
C37_OncePerBurst ==
    /\ invokedAfterWait
    /\ \A i \in 1..(Len(wrapperCalls) - 1) :
          Cardinality(invocationsOf(i)) = IF gapAfter(i) >= Wait THEN 1 ELSE 0
    /\ wrapperCalls # <<>> =>
          Cardinality(invocationsOf(Len(wrapperCalls))) <= 1

\* C37 amended: func is not invoked while calls arrive less than wait
\* apart; every burst has at most one invocation, no sooner than wait
\* after its last call, by the timer of the call made last before it and
\* with that call's arguments; and the last call of all has its invocation
\* once no timer is set.
C37_AtMostOncePerBurst ==
    /\ invokedAfterWait
    /\ \A j \in DOMAIN funcCalls : funcCalls[j].call = funcCalls[j].after
    /\ \A i \in DOMAIN wrapperCalls : Cardinality(invocationsOf(i)) <= 1
    /\ (wrapperCalls # <<>> /\ timers = {}) =>
          invocationsOf(Len(wrapperCalls)) # {}

\* Two bursts, the first of two calls, each with its invocation.
C37_Witness ==
    /\ Len(wrapperCalls) = 3
    /\ gapAfter(1) < Wait
    /\ gapAfter(2) >= Wait
    /\ Len(funcCalls) = 2
    /\ timers = {}


\* ---------------------------------------------------------------------
\* The quick buttons of the time-range control.
\* ---------------------------------------------------------------------

\* time-range-filter.js handleDateChange: the fields and the label after
\* it, and the range it gave to the callback, if it called it.
handleDateChange(sel) ==
    LET shown == [sel EXCEPT !.display = updateDisplayText(sel)]
    IN  [filter |-> shown,
         delivered |-> IF isValidRange(shown)
                       THEN [defined |-> TRUE, value |-> getRange(shown)]
                       ELSE [defined |-> FALSE, value |-> getRange(shown)]]

\* while (fromMonth <= 0) { fromMonth += 12; fromYear--; }
RECURSIVE wrapMonth(_, _)
wrapMonth(fromMonth, fromYear) ==
    IF fromMonth <= 0 THEN wrapMonth(fromMonth + 12, fromYear - 1)
    ELSE [month |-> fromMonth, year |-> fromYear]

\* setQuickRange(months) for the data-months value of a quick button, on
\* selects whose year options are `years`.
setQuickRange(filter, months, years, today) ==
    LET currentYear == today.fullYear
        currentMonth == today.month + 1
        from == wrapMonth(currentMonth - parseInt(months).value + 1,
                          currentYear)
        sel == IF months = "all"
               THEN [filter EXCEPT !.fromYear = 0, !.fromMonth = 0,
                                   !.toYear = 0, !.toMonth = 0]
               ELSE [filter EXCEPT
                        !.fromYear = selectValue(from.year, years),
                        !.fromMonth = selectValue(from.month, 1..12),
                        !.toYear = selectValue(currentYear, years),
                        !.toMonth = selectValue(currentMonth, 1..12)]
    IN  handleDateChange(sel)

\* The quick buttons, by their data-months value.
QuickRanges == {"3", "6", "12", "all"}

\* A file of rows of two years and a file of one year; the clock in any
\* month of 2024.
QuickRangeInputs ==
    [kind : {"quickRange"},
     rows : {UniverseOrder, <<UniverseOrder[1], UniverseOrder[2]>>},
     month : 0..11, months : QuickRanges]

InitQuick ==
    /\ pc = "call"
    /\ fnInput \in QuickRangeInputs
    /\ fnResult = NULL
    /\ timeRangeFilter = NULL
    /\ deliveredRange = NULL
    /\ document = {}
    /\ objects = {}
    /\ drawn = {}
    /\ console = {}
    /\ mainContent = <<>>
    /\ theChart = NULL
    /\ canvas = NULL
    /\ pointer = NULL
    /\ csvInput = NULL
    /\ text = <<>>
    /\ lines = <<>>
    /\ data = <<>>
    /\ rawData = <<>>
    /\ originalRawData = [defined |-> FALSE, value |-> <<>>]
    /\ filterManager = NULL
    /\ metricsCalculator = NULL
    /\ renderedMetrics = NULL
    /\ renderedDeltas = NULL
    /\ now = NULL
    /\ renderLog = <<>>
    /\ shownRows = NULL
    /\ pageIdle
    /\ options = NULL

\* A click on a quick button of the time-range control.
SetQuickRange ==
    /\ pc = "call"
    /\ fnInput.kind = "quickRange"
    /\ LET years == getYearsFromData(fnInput.rows)
           today == jsDate(2024, fnInput.month)
       IN  fnResult' = setQuickRange(
                           populateYears(newTimeRangeFilter, years, today),
                           fnInput.months, years, today)
    /\ pc' = "return"
    /\ UNCHANGED fnInput
    /\ UNCHANGED csvVars
    /\ UNCHANGED appVars
    /\ UNCHANGED rangeVars
    /\ UNCHANGED initVars
    /\ UNCHANGED chartVars
    /\ UNCHANGED pageVars


NextQuick ==
    \/ SetQuickRange

SpecQuick == InitQuick /\ [][NextQuick]_vars

\* C38: for every current month and every quick range of N months (3, 6,
\* 12), setQuickRange yields a range that ends in the current year and
\* month and starts N - 1 months earlier, the year decremented on
\* wrap-around: fromMonth is in 1..12, from <= to, and the range covers
\* exactly N calendar months; the quick range "all" clears the four
\* controls and yields a range with isAll = TRUE.
C38_QuickRangeCoversMonths ==
    Returned("quickRange") =>
        LET currentYear == jsDate(2024, fnInput.month).fullYear
            currentMonth == fnInput.month + 1
            shown == fnResult.filter
            range == fnResult.delivered.value
        IN  /\ fnResult.delivered.defined
            /\ IF fnInput.months = "all"
               THEN /\ shown.fromYear = 0 /\ shown.fromMonth = 0
                    /\ shown.toYear = 0 /\ shown.toMonth = 0
                    /\ range.isAll
               ELSE LET n == parseInt(fnInput.months).value
                    IN  /\ ~range.isAll
                        /\ range.toYear = currentYear
                        /\ range.toMonth = currentMonth
                        /\ range.fromMonth \in 1..12
                        /\ range.fromYear * 12 + range.fromMonth
                              = currentYear * 12 + currentMonth - (n - 1)
                        /\ range.fromYear * 12 + range.fromMonth
                              <= range.toYear * 12 + range.toMonth
                        /\ (range.toYear * 12 + range.toMonth)
                              - (range.fromYear * 12 + range.fromMonth) + 1
                              = n


\* ---------------------------------------------------------------------
\* The severity labels of the table, of the normalizer and of the
\* distribution.
\* ---------------------------------------------------------------------

\* table.js getSeverityBadge: the span of the Severity cell.
getSeverityBadge(severity) ==
    LET level == parseInt(severity)
        label == IF level = jsNumber(5) THEN "Critical"
                 ELSE IF level = jsNumber(4) THEN "High"
                 ELSE IF level = jsNumber(3) THEN "Medium"
                 ELSE IF level = jsNumber(2) \/ level = jsNumber(1) THEN "Low"
                 ELSE "Low"
    IN  [class |-> "badge badge-severity", text |-> label]

\* The Severity cell of a row of the table (the one column of the model).
formatCellValue(col, value, row) ==
    CASE col = "Severity" -> getSeverityBadge(value)

BadgeInputs ==
    [kind : {"badge"}, severities : SeqsUpTo(SeverityValues, MaxSevRows)]

InitBadge ==
    /\ pc = "call"
    /\ fnInput \in BadgeInputs
    /\ fnResult = NULL
    /\ timeRangeFilter = NULL
    /\ deliveredRange = NULL
    /\ document = {}
    /\ objects = {}
    /\ drawn = {}
    /\ console = {}
    /\ mainContent = <<>>
    /\ theChart = NULL
    /\ canvas = NULL
    /\ pointer = NULL
    /\ csvInput = NULL
    /\ text = <<>>
    /\ lines = <<>>
    /\ data = <<>>
    /\ rawData = <<>>
    /\ originalRawData = [defined |-> FALSE, value |-> <<>>]
    /\ filterManager = NULL
    /\ metricsCalculator = NULL
    /\ renderedMetrics = NULL
    /\ renderedDeltas = NULL
    /\ now = NULL
    /\ renderLog = <<>>
    /\ shownRows = NULL
    /\ pageIdle
    /\ options = NULL

\* The dashboard of the normalized rows: the Severity cells of the table
\* (dataTable.setData) and the data of the severity pie chart.
ShowSeverities ==
    /\ pc = "call"
    /\ fnInput.kind = "badge"
    /\ LET rows == normalizeData(severityRows(fnInput))
       IN  fnResult' =
             [rows |-> rows,
              cells |-> [k \in 1..Len(rows) |->
                           formatCellValue("Severity",
                                           get(rows[k], "Severity"),
                                           rows[k])],
              distribution |-> getSeverityDistribution(rows)]
    /\ pc' = "return"
    /\ UNCHANGED fnInput
    /\ UNCHANGED csvVars
    /\ UNCHANGED appVars
    /\ UNCHANGED rangeVars
    /\ UNCHANGED initVars
    /\ UNCHANGED chartVars
    /\ UNCHANGED pageVars

NextBadge ==
    \/ ShowSeverities

SpecBadge == InitBadge /\ [][NextBadge]_vars

\* C39: for every severity value in 1..5 the label of the table's badge
\* equals the label the normalizer derived for the row (severityText), and
\* the severity distribution counts the row in the bucket of that label:
\* each bucket's value is the number of rows of severity 1..5 whose badge
\* shows the bucket's label.
C39_SeverityLabelsAgree ==
    Returned("badge") =>
        LET rows == fnResult.rows
            graded == {k \in 1..Len(rows) :
                         get(rows[k], "Severity")
                            \in {"1", "2", "3", "4", "5"}}
        IN  /\ \A k \in graded :
                  fnResult.cells[k].text = rows[k]["severityText"]
            /\ \A b \in 1..Len(fnResult.distribution) :
                  fnResult.distribution[b].value
                    = Cardinality({k \in graded :
                         fnResult.cells[k].text
                            = fnResult.distribution[b].label})

=============================================================================
